---------------------------- MODULE Spec2Model ----------------------------
(***************************************************************************)
(* A model of the OAuth 2.0 authorization-code broker of                   *)
(* source/servers/sample-auth-python: the two token stores                 *)
(* (LocalTokenStore, DynamoDBTokenStore), dynamic client registration,     *)
(* /authorize, /callback, /token and the bearer-token validator.           *)
(*                                                                         *)
(* Modelling conventions                                                   *)
(*  - str(uuid.uuid4()) is a fresh identifier: the next value of the       *)
(*    counter nextId.  Identifiers are positive integers; 0 is an absent   *)
(*    (None or empty) identifier.                                          *)
(*  - Python's None and the empty string are both falsy and the handlers   *)
(*    only ever test them for truth, so both are the one absent value:     *)
(*    0 for identifiers, "" for strings, << >> for byte strings.           *)
(*  - A Python number is a record [k |-> kind, v |-> value] with kind      *)
(*    "int", "float" or "decimal": the durable store changes the kind of   *)
(*    the numbers it returns.                                              *)
(*  - now is int(time.time()), in whole seconds.                           *)
(*  - The DynamoDB table is a map with atomic single-item get/put/delete   *)
(*    and a background time-to-live sweeper that removes expired items at  *)
(*    a moment of its own choosing.                                        *)
(*  - A call of the DynamoDB store may raise (the table cannot be reached); *)
(*    a call of the in-memory store never does.                            *)
(*  - The process environment is the deployed one: PORT, the COGNITO_*     *)
(*    settings and JWT_SECRET_KEY are set.                                 *)
(***************************************************************************)
EXTENDS Integers, Sequences, FiniteSets, TLC

VARIABLES
    backend,         \* the store get_token_store() returned: "local" | "dynamo"
    now,             \* int(time.time())
    nextId,          \* the next identifier uuid.uuid4() returns
    clients,         \* token store: client_id -> entry
    sessions,        \* token store: session_id -> entry
    tokens,          \* token store: authorization code -> entry
    refresh_tokens,  \* token store: broker refresh token -> entry
    reqs,            \* the /token requests: slot -> request record
    running,         \* the /token request that holds the event loop (0: none)
    resp,            \* the response of the last /register, /authorize or /callback
    regLog,          \* the successful /register responses, in order
    lastGet,         \* the answer of the last get call made on the store directly
    vres             \* the last bearer-token validation (validator runs)

vars == << backend, now, nextId, clients, sessions, tokens, refresh_tokens,
           reqs, running, resp, regLog, lastGet, vres >>

-----------------------------------------------------------------------------
(* Bounds of the model *)

\* identifiers uuid4 hands out in one run
MaxIds == 6
\* clients, sessions and authorization codes the broker keeps at one time;
\* entries the store keeps at one time when its calls are made directly
MaxFlows == 1
\* /token requests in one run
MaxReqs == 2
\* clock advances in one run
MaxTicks == 1

-----------------------------------------------------------------------------
(* Program constants *)

SessionTTL == 24 * 60 * 60
CodeTTL == 10 * 60
RefreshTTL == 30 * 24 * 60 * 60
DefaultExpiresIn == 3600

PyInt(n) == [k |-> "int", v |-> n]
PyFloat(n) == [k |-> "float", v |-> n]

-----------------------------------------------------------------------------
(* Python dict operations on a store map *)

Has(tbl, key) == key \in DOMAIN tbl

Put(tbl, key, entry) ==
    [x \in DOMAIN tbl \cup {key} |-> IF x = key THEN entry ELSE tbl[x]]

Del(tbl, key) == [x \in DOMAIN tbl \ {key} |-> tbl[x]]

EmptyMap == [x \in {} |-> 0]

\* the numeric fields of the records the handlers store
NumericFields == {"created_at", "expires_in", "client_id_issued_at",
                   "client_secret_expires_at"}

-----------------------------------------------------------------------------
(* DynamoDBTokenStore: number conversions *)

\* _convert_floats: a float becomes Decimal(str(f)); every other value is kept.
\* The table then holds the DynamoDB number type for ints and Decimals alike.
ConvertFloatsNum(n) == IF n.k = "float" THEN [k |-> "decimal", v |-> n.v] ELSE n

\* what table.put_item stores and table.get_item returns for a number:
\* boto3 serialises int and Decimal to N and deserialises N to Decimal
DynamoNumber(n) == [k |-> "decimal", v |-> n.v]

\* convert_decimals: a Decimal becomes a float
ConvertDecimalsNum(n) == IF n.k = "decimal" THEN [k |-> "float", v |-> n.v] ELSE n

\* _convert_floats on a dict: recursively, value by value
_convert_floats(data) ==
    [f \in DOMAIN data |->
        IF f \in NumericFields THEN ConvertFloatsNum(data[f]) ELSE data[f]]

\* convert_decimals on a dict: recursively, value by value
convert_decimals(data) ==
    [f \in DOMAIN data |->
        IF f \in NumericFields THEN ConvertDecimalsNum(data[f]) ELSE data[f]]

\* table.put_item followed by table.get_item
DynamoRoundTrip(data) ==
    [f \in DOMAIN data |->
        IF f \in NumericFields THEN DynamoNumber(data[f]) ELSE data[f]]

\* the 'data' a store keeps for a record the handler hands it
StoredData(data) ==
    IF backend = "dynamo" THEN DynamoRoundTrip(_convert_floats(data)) ELSE data

\* the record a get hands back for the 'data' it finds
ReturnedData(data) ==
    IF backend = "dynamo" THEN convert_decimals(data) ELSE data

-----------------------------------------------------------------------------
(* Store entries *)

\* store_client: no expiration
ClientEntry(data) == [data |-> StoredData(data), created_at |-> now]

\* store_session / store_token_mapping / store_refresh_token /
\* update_refresh_token: expiration = int(time.time()) + ttl
TTLEntry(data, ttl) ==
    [data |-> StoredData(data), created_at |-> now, expiration |-> now + ttl]

\* the expiry test with <= for < (sensitivity variant for C7)
LocalExpiredAtExpiration(entry) == entry.expiration <= now

\* LocalTokenStore.get_*: the expiry test of a found entry
LocalExpired(entry) == entry.expiration < now

\* DynamoDBTokenStore.get_*: the item is returned whatever its expiration
DynamoExpired(entry) == FALSE

Expired(entry) ==
    IF backend = "local" THEN LocalExpired(entry) ELSE DynamoExpired(entry)

\* get_session / get_token_mapping / get_refresh_token: found or not
GetFound(tbl, key) == Has(tbl, key) /\ ~Expired(tbl[key])

\* the data a successful get returns
GetData(tbl, key) == ReturnedData(tbl[key].data)

\* a get that answers not-found for an expired entry and leaves the eviction
\* to a later step (sensitivity variant for C33)
AfterGetWithoutEviction(tbl, key) == tbl

\* the map after the get: LocalTokenStore deletes the expired entry it finds
AfterGet(tbl, key) ==
    IF backend = "local" /\ Has(tbl, key) /\ LocalExpired(tbl[key])
    THEN Del(tbl, key)
    ELSE tbl

\* get_client
\* a client lookup that expires a registration as a session expires
\* (sensitivity variant for C32)
ClientFoundWithinSessionTTL(key) ==
    Has(clients, key) /\ now <= clients[key].created_at + SessionTTL

ClientFound(key) == Has(clients, key)
ClientData(key) == ReturnedData(clients[key].data)

-----------------------------------------------------------------------------
(* PKCE: base64.urlsafe_b64encode(hashlib.sha256(verifier).digest())       *)
(*       .decode('ascii').rstrip('=')                                      *)
(* A string is the sequence of its code points; a base64 text is the       *)
(* sequence of its symbols, symbol k < 64 being the k-th character of the  *)
(* URL-safe alphabet and Pad being '='.                                    *)

Pad == 64

\* str.encode('ascii') raises UnicodeEncodeError on a code point above 127
EncodesAscii(str) == \A i \in 1..Len(str) : str[i] <= 127

RECURSIVE SumSeq(_)
SumSeq(s) == IF s = << >> THEN 0 ELSE Head(s) + SumSeq(Tail(s))

RECURSIVE WeightedSum(_, _)
WeightedSum(s, i) ==
    IF s = << >> THEN 0 ELSE i * Head(s) + WeightedSum(Tail(s), i + 1)

\* hashlib.sha256(bytes).digest(): a deterministic digest of the bytes.  The
\* model's digest has two bytes where SHA-256 has thirty-two; both leave two
\* bytes in the last base64 group, hence one '=' of padding.
Sha256(bytes) ==
    << (WeightedSum(bytes, 1) * 7 + 3) % 256,
       (SumSeq(bytes) * 13 + Len(bytes)) % 256 >>

\* one base64 group: up to three bytes give four symbols
B64Group(g) ==
    LET b1 == g[1]
        b2 == IF Len(g) >= 2 THEN g[2] ELSE 0
        b3 == IF Len(g) >= 3 THEN g[3] ELSE 0
        n  == b1 * 65536 + b2 * 256 + b3
    IN  << n \div 262144,
           (n \div 4096) % 64,
           IF Len(g) >= 2 THEN (n \div 64) % 64 ELSE Pad,
           IF Len(g) >= 3 THEN n % 64 ELSE Pad >>

RECURSIVE UrlsafeB64Encode(_)
UrlsafeB64Encode(bytes) ==
    IF bytes = << >> THEN << >>
    ELSE IF Len(bytes) <= 3 THEN B64Group(bytes)
    ELSE B64Group(SubSeq(bytes, 1, 3))
            \o UrlsafeB64Encode(SubSeq(bytes, 4, Len(bytes)))

RECURSIVE RStripPad(_)
RStripPad(text) ==
    IF text /= << >> /\ text[Len(text)] = Pad
    THEN RStripPad(SubSeq(text, 1, Len(text) - 1))
    ELSE text

\* the challenge the /token handler computes from a verifier
S256Challenge(verifier) == RStripPad(UrlsafeB64Encode(Sha256(verifier)))

\* the verifiers a client may present: "ab", "ac", and "\u00e9" (not ASCII)
VerifierA == << 97, 98 >>
VerifierB == << 97, 99 >>
VerifierU == << 233 >>
Verifiers == { << >>, VerifierA, VerifierB, VerifierU }

\* the code_challenge values a client may send to /authorize: none, and the
\* S256 challenge of "ab"
Challenges == { << >>, S256Challenge(VerifierA) }

\* the code_challenge_method values a client may send ("" : parameter absent)
Methods == { "", "S256", "plain" }

-----------------------------------------------------------------------------
(* URIs: a URI is the sequence of the pieces its text is the concatenation  *)
(* of, cut so that every prefix the code tests is a whole number of pieces. *)

StartsWith(text, prefix) ==
    Len(prefix) <= Len(text) /\ SubSeq(text, 1, Len(prefix)) = prefix

UriClient == << "https://", "client.example", "/cb" >>
UriOther == << "https://", "other.example", "/cb" >>
UriLocalhost == << "http://", "localhost", ":8080/cb" >>
UriLoopback == << "http://", "127.0.0.1", "/cb" >>
UriPlainHttp == << "http://", "client.example", "/cb" >>
\* plain HTTP URIs of other hosts whose text begins as a loopback URI does
UriLocalhostPrefix == << "http://", "localhost", ".evil.example", "/cb" >>
UriLoopbackPrefix == << "http://", "127.0.0.1", ".evil.example", "/cb" >>

\* the host of a URI (urlparse(uri).hostname): the pieces after the scheme
\* up to the port or the path
TailPieces == {"/cb", ":8080/cb"}
HostOf(uri) == SelectSeq(Tail(uri), LAMBDA piece : piece \notin TailPieces)

\* register_client: the test of one redirect URI
RedirectUriAllowed(uri) ==
    \/ StartsWith(uri, << "https://" >>)
    \/ StartsWith(uri, << "http://", "localhost" >>)
    \/ StartsWith(uri, << "http://", "127.0.0.1" >>)

-----------------------------------------------------------------------------
(* The initial state: empty stores, the store chosen by get_token_store()  *)

\* no answer of a get call is at hand: none was made since the store or the
\* clock last changed
NoGet == [op |-> "none"]

\* no exchange with Cognito was made
NoUpstream ==
    [ok |-> FALSE, access_token |-> "", refresh_token |-> "",
     has_expires_in |-> FALSE]

NoResp == [op |-> "none", status |-> 0, error |-> ""]

IdleReq ==
    [pc |-> "idle", grant_type |-> "", code |-> 0, client_id |-> 0,
     code_verifier |-> << >>, complete |-> FALSE, after |-> FALSE,
     owner |-> 0,
     mapping |-> EmptyMap, refresh_token |-> 0, status |-> 0, error |-> "",
     error_description |-> "", form_refresh_token |-> 0,
     redirect_uri |-> << >>,
     response |-> EmptyMap, upstream |-> "none",
     upstream_outcome |-> NoUpstream]

Slots == 1..MaxReqs

\* os.environ.get('TOKEN_TABLE_NAME'): unset (None), or the text it is set to
TableNames ==
    { [set |-> FALSE, value |-> ""], [set |-> TRUE, value |-> ""],
      [set |-> TRUE, value |-> "mcp-tokens"] }

\* what DynamoDBTokenStore() comes to when it is called: it returns, or
\* boto3 raises (no region, no credentials provider, a bad table name)
InitOutcomes == {"ok", "raises"}

\* the factory without its try block: the exception leaves it (sensitivity
\* variant for C25)
get_token_store_without_try(table_name, init) ==
    IF table_name.set /\ table_name.value /= ""
    THEN IF init = "ok" THEN "dynamo" ELSE "raised"
    ELSE "local"

\* get_token_store(): the store it returns
get_token_store(table_name, init) ==
    IF table_name.set /\ table_name.value /= ""
    THEN IF init = "ok" THEN "dynamo" ELSE "local"
    ELSE "local"

Init ==
    /\ backend \in { get_token_store(table_name, init) :
                        table_name \in TableNames, init \in InitOutcomes }
    /\ now = 0
    /\ nextId = 1
    /\ clients = EmptyMap
    /\ sessions = EmptyMap
    /\ tokens = EmptyMap
    /\ refresh_tokens = EmptyMap
    /\ reqs = [r \in Slots |-> IdleReq]
    /\ running = 0
    /\ resp = NoResp
    /\ regLog = << >>
    /\ lastGet = NoGet
    /\ vres = [op |-> "none"]

\* the state after the import of oauth_cognito, with the configuration
\* get_token_store() found and the store it returned on record
InitStartup ==
    /\ \E table_name \in TableNames, init \in InitOutcomes :
          /\ backend = get_token_store(table_name, init)
          /\ vres = [op |-> "get_token_store", table_name |-> table_name,
                     init |-> init,
                     store |-> get_token_store(table_name, init)]
    /\ now = 0
    /\ nextId = 1
    /\ clients = EmptyMap
    /\ sessions = EmptyMap
    /\ tokens = EmptyMap
    /\ refresh_tokens = EmptyMap
    /\ reqs = [r \in Slots |-> IdleReq]
    /\ running = 0
    /\ resp = NoResp
    /\ regLog = << >>
    /\ lastGet = NoGet

\* no /token handler is between two store calls that do not suspend it
LoopFree == running = 0

-----------------------------------------------------------------------------
(* POST /register *)

\* the client_info dict: the generated fields, then **client_metadata, whose
\* keys replace the generated ones of the same name
ClientInfo(meta, client_id, client_secret) ==
    meta @@ [client_id |-> client_id,
             client_secret |-> client_secret,
             client_id_issued_at |-> PyInt(now),
             client_secret_expires_at |-> PyInt(0)]

\* the first check that fails, "" when none does
RegisterError(meta) ==
    IF "redirect_uris" \notin DOMAIN meta \/ "client_name" \notin DOMAIN meta
    THEN "invalid_client_metadata"
    ELSE IF \E i \in 1..Len(meta.redirect_uris) :
                ~RedirectUriAllowed(meta.redirect_uris[i])
    THEN "invalid_redirect_uri"
    ELSE ""

register_client(meta) ==
    /\ LoopFree
    /\ LET err == RegisterError(meta)
           client_id == nextId
           client_secret == nextId + 1
           client_info == ClientInfo(meta, client_id, client_secret)
       IN  IF err /= ""
           THEN /\ resp' = [op |-> "register", status |-> 400, error |-> err]
                /\ UNCHANGED << nextId, clients, regLog >>
           ELSE /\ nextId + 1 <= MaxIds
                /\ nextId' = nextId + 2
                /\ clients' = Put(clients, client_id, ClientEntry(client_info))
                /\ resp' = [op |-> "register", status |-> 200, error |-> "",
                            body |-> client_info]
                /\ regLog' = Append(regLog, client_info)
    /\ lastGet' = NoGet
    /\ UNCHANGED << backend, now, sessions, tokens, refresh_tokens, reqs,
                    running, vres >>

-----------------------------------------------------------------------------
(* GET /authorize *)

InList(x, list) == \E i \in 1..Len(list) : list[i] = x

\* the checks without the one of the redirect URI (sensitivity variant for
\* C14)
AuthorizeErrorAnyRedirect(q) ==
    IF q.client_id = 0 \/ q.redirect_uri = << >> \/ q.response_type /= "code"
    THEN "invalid_request"
    ELSE IF ~ClientFound(q.client_id)
    THEN "invalid_client"
    ELSE ""

\* the first check that fails, "" when none does
AuthorizeError(q) ==
    IF q.client_id = 0 \/ q.redirect_uri = << >> \/ q.response_type /= "code"
    THEN "invalid_request"
    ELSE IF ~ClientFound(q.client_id)
    THEN "invalid_client"
    ELSE IF ~InList(q.redirect_uri, ClientData(q.client_id).redirect_uris)
    THEN "invalid_redirect_uri"
    ELSE ""

\* request.query_params.get('code_challenge_method', 'S256')
MethodOrDefault(m) == IF m = "" THEN "S256" ELSE m

\* session_data without the request's code_challenge (sensitivity variant for
\* C13)
SessionDataChallengeDropped(q) ==
    [client_id |-> q.client_id,
     redirect_uri |-> q.redirect_uri,
     state |-> q.state,
     code_challenge |-> << >>,
     code_challenge_method |-> MethodOrDefault(q.code_challenge_method),
     scope |-> q.scope,
     created_at |-> PyFloat(now)]

SessionData(q) ==
    [client_id |-> q.client_id,
     redirect_uri |-> q.redirect_uri,
     state |-> q.state,
     code_challenge |-> q.code_challenge,
     code_challenge_method |-> MethodOrDefault(q.code_challenge_method),
     scope |-> q.scope,
     created_at |-> PyFloat(now)]

\* a call of the DynamoDB store may raise (boto3 error); the in-memory store
\* never does
StoreMayRaise == backend = "dynamo"

\* /authorize has no try block: an exception of a store call leaves the
\* handler and the server answers 500
authorize(q) ==
    /\ LoopFree
    /\ LET err == AuthorizeError(q)
           session_id == nextId
       IN  \/ /\ err /= ""
              /\ resp' = [op |-> "authorize",
                          status |-> IF err = "invalid_client" THEN 401 ELSE 400,
                          error |-> err, authorize_request |-> q,
                          location |-> ""]
              /\ UNCHANGED << nextId, sessions >>
           \/ \* get_client or store_session raised
              /\ err /= "invalid_request"
              /\ StoreMayRaise
              /\ resp' = [op |-> "authorize", status |-> 500,
                          error |-> "Internal Server Error",
                          authorize_request |-> q, location |-> ""]
              /\ UNCHANGED << nextId, sessions >>
           \/ /\ err = ""
              /\ nextId <= MaxIds
              /\ nextId' = nextId + 1
              /\ sessions' = Put(sessions, session_id,
                                 TTLEntry(SessionData(q), SessionTTL))
              /\ resp' = [op |-> "authorize", status |-> 302, error |-> "",
                          authorize_request |-> q,
                          location |-> "cognito", upstream_state |-> session_id,
                          scope |-> q.scope]
    /\ UNCHANGED << backend, now, clients, tokens, refresh_tokens, reqs,
                    running, regLog, lastGet, vres >>

-----------------------------------------------------------------------------
(* GET /callback *)

\* what the POST to Cognito's /oauth2/token comes to: an exception (non-2xx,
\* timeout, network error, no JSON), or a JSON body with or without
\* access_token, refresh_token and expires_in
UpstreamOutcomes ==
    { [ok |-> FALSE, access_token |-> "", refresh_token |-> "", has_expires_in |-> FALSE],
      [ok |-> TRUE, access_token |-> "", refresh_token |-> "", has_expires_in |-> FALSE],
      [ok |-> TRUE, access_token |-> "cognito-at", refresh_token |-> "", has_expires_in |-> FALSE],
      [ok |-> TRUE, access_token |-> "cognito-at", refresh_token |-> "cognito-rt", has_expires_in |-> TRUE] }

\* token_data without the session's code_challenge (sensitivity variant for
\* C15)
TokenDataChallengeDropped(session, up) ==
    [cognito_access_token |-> up.access_token,
     cognito_refresh_token |-> up.refresh_token,
     cognito_id_token |-> "",
     client_id |-> session.client_id,
     scope |-> session.scope,
     code_challenge |-> << >>,
     code_challenge_method |-> session.code_challenge_method,
     created_at |-> PyFloat(now),
     expires_in |-> PyInt(IF up.has_expires_in THEN 300 ELSE DefaultExpiresIn)]

\* only an exception of the POST counts as failure (sensitivity variant for
\* C17)
UpstreamFailedOnlyOnException(up) == ~up.ok

\* the POST, raise_for_status, .json() or tokens['access_token'] raises
UpstreamFailed(up) == ~up.ok \/ up.access_token = ""

\* the token_data dict of the callback
TokenData(session, up) ==
    [cognito_access_token |-> up.access_token,
     cognito_refresh_token |-> up.refresh_token,
     cognito_id_token |-> "",
     client_id |-> session.client_id,
     scope |-> session.scope,
     code_challenge |-> session.code_challenge,
     code_challenge_method |-> session.code_challenge_method,
     created_at |-> PyFloat(now),
     expires_in |-> PyInt(IF up.has_expires_in THEN 300 ELSE DefaultExpiresIn)]

\* redirect_params: the code, and the state if the session has one
RedirectParams(session, mcp_auth_code) ==
    IF session.state /= ""
    THEN [code |-> mcp_auth_code, state |-> session.state]
    ELSE [code |-> mcp_auth_code]

\* the response of a /callback that ends before the redirect; upstream: whether
\* the POST to Cognito was made and what it came to
CallbackAnswer(q, status, error, upstream, up) ==
    [op |-> "callback", status |-> status, error |-> error,
     callback_request |-> q, upstream |-> upstream, upstream_outcome |-> up,
     redirect_url |-> << >>]

\* q: the query parameters; up: what the upstream exchange comes to
callback(q, up) ==
    /\ LoopFree
    /\ \/ /\ q.error /= ""
          /\ resp' = CallbackAnswer(q, 400, q.error, "none", NoUpstream)
          /\ UNCHANGED << nextId, sessions, tokens >>
       \/ /\ q.error = ""
          /\ q.code = "" \/ q.state = 0
          /\ resp' = CallbackAnswer(q, 400, "invalid_request", "none",
                                    NoUpstream)
          /\ UNCHANGED << nextId, sessions, tokens >>
       \/ \* get_session raised, outside the try block
          /\ q.error = "" /\ q.code /= "" /\ q.state /= 0
          /\ StoreMayRaise
          /\ resp' = CallbackAnswer(q, 500, "Internal Server Error", "none",
                                    NoUpstream)
          /\ UNCHANGED << nextId, sessions, tokens >>
       \/ /\ q.error = "" /\ q.code /= "" /\ q.state /= 0
          /\ ~GetFound(sessions, q.state)
          /\ sessions' = AfterGet(sessions, q.state)
          /\ resp' = CallbackAnswer(q, 400, "invalid_state", "none",
                                    NoUpstream)
          /\ UNCHANGED << nextId, tokens >>
       \/ /\ q.error = "" /\ q.code /= "" /\ q.state /= 0
          /\ GetFound(sessions, q.state)
          /\ LET session == GetData(sessions, q.state)
                 mcp_auth_code == nextId
             IN  \/ \* raise_for_status, the transport, .json() or
                    \* tokens['access_token'] raised: the except clause answers
                    /\ UpstreamFailed(up)
                    /\ resp' = CallbackAnswer(q, 500, "server_error", "failed",
                                              up)
                    /\ UNCHANGED << nextId, tokens >>
                 \/ \* store_token_mapping raised, inside the try block
                    /\ ~UpstreamFailed(up)
                    /\ StoreMayRaise
                    /\ resp' = CallbackAnswer(q, 500, "server_error", "ok", up)
                    /\ UNCHANGED << nextId, tokens >>
                 \/ /\ ~UpstreamFailed(up)
                    /\ nextId <= MaxIds
                    /\ nextId' = nextId + 1
                    /\ tokens' = Put(tokens, mcp_auth_code,
                                     TTLEntry(TokenData(session, up), CodeTTL))
                    /\ resp' = [op |-> "callback", status |-> 302,
                                error |-> "", callback_request |-> q,
                                upstream |-> "ok", upstream_outcome |-> up,
                                redirect_url |-> session.redirect_uri,
                                redirect_params |->
                                    RedirectParams(session, mcp_auth_code)]
          /\ UNCHANGED sessions
    /\ UNCHANGED << backend, now, clients, refresh_tokens, reqs, running,
                    regLog, lastGet, vres >>

-----------------------------------------------------------------------------
(* POST /token, grant_type=authorization_code                               *)
(* token() and handle_authorization_code_grant() run from one await to the  *)
(* next.  A call of the DynamoDB store suspends the handler                 *)
(* (run_in_executor), so other requests run in between, and it may raise;   *)
(* a call of the in-memory store neither suspends nor raises, so the        *)
(* handler keeps the event loop from reading its form to its response.      *)
(* A finished slot keeps the response and the code it was asked about; a    *)
(* slot in flight keeps the locals the rest of the handler still reads.     *)

\* the codes a token response was returned for
RedeemedCodes ==
    { reqs[r].code : r \in { x \in Slots : reqs[x].pc = "done" /\ reqs[x].status = 200 } }

MayRun(r) == running = 0 \/ running = r

\* the event loop after a store call of request r that is not its last
Suspend(r) == IF backend = "local" THEN r ELSE 0

\* the slot of a request that has answered: the response, and of the
\* request its grant type, code and client_id and whether it was complete
Done(req, status, error, description) ==
    [IdleReq EXCEPT !.pc = "done", !.grant_type = req.grant_type,
                    !.code = req.code, !.client_id = req.client_id,
                    !.complete = req.complete, !.after = req.after,
                    !.owner = req.owner,
                    !.refresh_token = req.refresh_token,
                    !.form_refresh_token = req.form_refresh_token,
                    !.redirect_uri = req.redirect_uri,
                    !.upstream = req.upstream,
                    !.upstream_outcome = req.upstream_outcome,
                    !.status = status, !.error = error,
                    !.error_description = description]

\* step 1 with a redirect_uri that must be one the client registered
\* (sensitivity variant for C28)
HasRequiredParametersRegisteredUri(form) ==
    /\ form.code /= 0
    /\ form.client_id /= 0
    /\ form.redirect_uri /= << >>
    /\ \E c \in DOMAIN clients :
          InList(form.redirect_uri, clients[c].data.redirect_uris)

\* step 1 of the grant: not code or not client_id or not redirect_uri
HasRequiredParameters(form) ==
    /\ form.code /= 0
    /\ form.client_id /= 0
    /\ form.redirect_uri /= << >>

\* the locals of token() once the form is read, and what is true of the
\* request as it arrives: whether it carries the three required parameters
\* (complete), whether a token response has already been returned for its
\* code (after), and the client its code is stored for (owner, 0: no one)
Received(form) ==
    [IdleReq EXCEPT !.pc = "form_data",
                    !.grant_type = form.grant_type,
                    !.code = form.code,
                    !.client_id = form.client_id,
                    !.code_verifier = form.code_verifier,
                    !.form_refresh_token = form.refresh_token,
                    !.redirect_uri = form.redirect_uri,
                    !.complete = HasRequiredParameters(form),
                    !.after = form.code \in RedeemedCodes,
                    !.owner = IF Has(tokens, form.code)
                              THEN tokens[form.code].data.client_id
                              ELSE 0]

\* token(): form_data = await request.form(), up to
\* await token_store.get_client(client_id)
token_request(r, form) ==
    /\ LoopFree
    /\ reqs[r].pc = "idle"
    /\ \A x \in Slots : x < r => reqs[x].pc /= "idle"
    /\ reqs' = [reqs EXCEPT ![r] = [Received(form) EXCEPT !.pc = "get_client"]]
    /\ running' = Suspend(r)
    /\ UNCHANGED << backend, now, nextId, clients, sessions, tokens,
                    refresh_tokens, resp, regLog, lastGet, vres >>

\* the dispatch with the authorization_code grant as the default branch
\* (sensitivity variant for C19)
token_get_client_code_by_default(r) ==
    /\ MayRun(r)
    /\ reqs[r].pc = "get_client"
    /\ IF reqs[r].grant_type = "refresh_token"
       THEN /\ reqs' = [reqs EXCEPT ![r].pc = "get_refresh_token"]
            /\ running' = Suspend(r)
       ELSE IF ~reqs[r].complete
       THEN /\ reqs' = [reqs EXCEPT ![r] =
                          Done(reqs[r], 400, "invalid_request",
                               "Missing required parameters")]
            /\ running' = 0
       ELSE /\ reqs' = [reqs EXCEPT ![r].pc = "get_token_mapping"]
            /\ running' = Suspend(r)
    /\ UNCHANGED << backend, now, nextId, clients, sessions, tokens,
                    refresh_tokens, resp, regLog, lastGet, vres >>

\* token(): the client comes back (and is only printed), the grant type is
\* dispatched on; handle_authorization_code_grant(): step 1, up to
\* await token_store.get_token_mapping(code); handle_refresh_token_grant():
\* step 1, up to await token_store.get_refresh_token(refresh_token)
token_get_client(r) ==
    /\ MayRun(r)
    /\ reqs[r].pc = "get_client"
    /\ IF reqs[r].grant_type = "authorization_code"
       THEN IF ~reqs[r].complete
            THEN /\ reqs' = [reqs EXCEPT ![r] =
                               Done(reqs[r], 400, "invalid_request",
                                    "Missing required parameters")]
                 /\ running' = 0
            ELSE /\ reqs' = [reqs EXCEPT ![r].pc = "get_token_mapping"]
                 /\ running' = Suspend(r)
       ELSE IF reqs[r].grant_type = "refresh_token"
       THEN IF reqs[r].form_refresh_token = 0 \/ reqs[r].client_id = 0
            THEN /\ reqs' = [reqs EXCEPT ![r] =
                               Done(reqs[r], 400, "invalid_request",
                                    "Missing required parameters")]
                 /\ running' = 0
            ELSE /\ reqs' = [reqs EXCEPT ![r].pc = "get_refresh_token"]
                 /\ running' = Suspend(r)
       ELSE /\ reqs' = [reqs EXCEPT ![r] =
                          Done(reqs[r], 400, "unsupported_grant_type",
                               "Grant type is not supported")]
            /\ running' = 0
    /\ UNCHANGED << backend, now, nextId, clients, sessions, tokens,
                    refresh_tokens, resp, regLog, lastGet, vres >>

\* the PKCE block comparing the challenge with the padded base64 text
\* (sensitivity variant for C18)
PkceErrorPadded(token_mapping, code_verifier) ==
    IF "code_challenge" \in DOMAIN token_mapping
    THEN IF code_verifier = << >>
         THEN "Missing code_verifier"
         ELSE IF token_mapping.code_challenge_method = "S256"
         THEN IF ~EncodesAscii(code_verifier)
              THEN "UnicodeEncodeError"
              ELSE IF UrlsafeB64Encode(Sha256(code_verifier))
                         /= token_mapping.code_challenge
              THEN "Invalid code_verifier"
              ELSE ""
         ELSE ""
    ELSE ""

\* the PKCE block (step 4): the error_description of the response it makes,
\* "" when the request passes it
PkceError(token_mapping, code_verifier) ==
    IF "code_challenge" \in DOMAIN token_mapping
    THEN IF code_verifier = << >>
         THEN "Missing code_verifier"
         ELSE IF token_mapping.code_challenge_method = "S256"
         THEN IF ~EncodesAscii(code_verifier)
              THEN "UnicodeEncodeError"
              ELSE IF S256Challenge(code_verifier) /= token_mapping.code_challenge
              THEN "Invalid code_verifier"
              ELSE ""
         ELSE ""
    ELSE ""

\* the grant without its step 3 (sensitivity variant for C6)
GrantErrorAnyClient(token_mapping, client_id, code_verifier) ==
    PkceError(token_mapping, code_verifier)

\* steps 3 and 4 of the grant: the client check, then PKCE
GrantError(token_mapping, client_id, code_verifier) ==
    IF token_mapping.client_id /= client_id
    THEN "Authorization code was issued to another client"
    ELSE PkceError(token_mapping, code_verifier)

\* the response an error_description goes out with; an exception leaves
\* the handler and token()'s except clause answers 500 server_error
ErrorOf(description) ==
    CASE description = "Missing code_verifier" -> "invalid_request"
      [] description = "UnicodeEncodeError" -> "server_error"
      [] OTHER -> "invalid_grant"

StatusOf(description) == IF description = "UnicodeEncodeError" THEN 500 ELSE 400

\* whether step 5 stores a refresh token mapping
MintsRefreshToken(token_mapping) == "cognito_refresh_token" \in DOMAIN token_mapping

\* the lookup of a grant that uses the code up on the first attempt, failed
\* or not
token_get_mapping_consuming(r) ==
    /\ MayRun(r)
    /\ reqs[r].pc = "get_token_mapping"
    /\ tokens' = IF GetFound(tokens, reqs[r].code)
                    /\ GrantError(GetData(tokens, reqs[r].code),
                                  reqs[r].client_id, reqs[r].code_verifier) /= ""
                 THEN Del(tokens, reqs[r].code)
                 ELSE AfterGet(tokens, reqs[r].code)
    /\ IF ~GetFound(tokens, reqs[r].code)
       THEN /\ reqs' = [reqs EXCEPT ![r] =
                          Done(reqs[r], 400, "invalid_grant",
                               "Invalid authorization code")]
            /\ running' = 0
       ELSE LET token_mapping == GetData(tokens, reqs[r].code)
                err == GrantError(token_mapping, reqs[r].client_id,
                                  reqs[r].code_verifier)
            IN  IF err /= ""
                THEN /\ reqs' = [reqs EXCEPT ![r] =
                                   Done(reqs[r], StatusOf(err), ErrorOf(err), err)]
                     /\ running' = 0
                ELSE /\ reqs' = [reqs EXCEPT
                            ![r].mapping = token_mapping,
                            ![r].code_verifier = << >>,
                            ![r].pc = IF MintsRefreshToken(token_mapping)
                                      THEN "store_refresh_token"
                                      ELSE "delete_token_mapping"]
                     /\ running' = Suspend(r)
    /\ UNCHANGED << backend, now, nextId, clients, sessions, refresh_tokens,
                    resp, regLog, lastGet, vres >>

\* await token_store.get_token_mapping(code), then steps 3 to 5 up to the
\* next store call
token_get_mapping(r) ==
    /\ MayRun(r)
    /\ reqs[r].pc = "get_token_mapping"
    /\ tokens' = AfterGet(tokens, reqs[r].code)
    /\ IF ~GetFound(tokens, reqs[r].code)
       THEN /\ reqs' = [reqs EXCEPT ![r] =
                          Done(reqs[r], 400, "invalid_grant",
                               "Invalid authorization code")]
            /\ running' = 0
       ELSE LET token_mapping == GetData(tokens, reqs[r].code)
                err == GrantError(token_mapping, reqs[r].client_id,
                                  reqs[r].code_verifier)
            IN  IF err /= ""
                THEN /\ reqs' = [reqs EXCEPT ![r] =
                                   Done(reqs[r], StatusOf(err), ErrorOf(err), err)]
                     /\ running' = 0
                ELSE /\ reqs' = [reqs EXCEPT
                            ![r].mapping = token_mapping,
                            ![r].code_verifier = << >>,
                            ![r].pc = IF MintsRefreshToken(token_mapping)
                                      THEN "store_refresh_token"
                                      ELSE "delete_token_mapping"]
                     /\ running' = Suspend(r)
    /\ UNCHANGED << backend, now, nextId, clients, sessions, refresh_tokens,
                    resp, regLog, lastGet, vres >>

RefreshTokenData(client_id, token_mapping) ==
    [client_id |-> client_id,
     cognito_refresh_token |-> token_mapping.cognito_refresh_token,
     scope |-> token_mapping.scope,
     created_at |-> PyInt(now)]

\* mcp_refresh_token = str(uuid.uuid4());
\* await token_store.store_refresh_token(mcp_refresh_token, refresh_token_data)
token_store_refresh(r) ==
    /\ MayRun(r)
    /\ reqs[r].pc = "store_refresh_token"
    /\ nextId <= MaxIds
    /\ nextId' = nextId + 1
    /\ refresh_tokens' =
          Put(refresh_tokens, nextId,
              TTLEntry(RefreshTokenData(reqs[r].client_id, reqs[r].mapping),
                       RefreshTTL))
    /\ reqs' = [reqs EXCEPT ![r].refresh_token = nextId,
                            ![r].pc = "delete_token_mapping"]
    /\ running' = Suspend(r)
    /\ UNCHANGED << backend, now, clients, sessions, tokens, resp, regLog,
                    lastGet, vres >>

\* the claims of the access token (exp and iat: the lifetime exp - iat)
AccessTokenClaims(client_id, scope, cognito_token, expires_in) ==
    [sub |-> client_id, aud |-> "mcp-server", scope |-> scope,
     cognito_token |-> cognito_token, lifetime |-> expires_in.v]

\* the body of the token response of the authorization_code grant
CodeGrantResponse(req) ==
    [access_token |-> AccessTokenClaims(req.client_id, req.mapping.scope,
                                        req.mapping.cognito_access_token,
                                        req.mapping.expires_in),
     token_type |-> "Bearer",
     expires_in |-> req.mapping.expires_in,
     scope |-> req.mapping.scope]
    @@ (IF req.refresh_token /= 0
        THEN [refresh_token |-> req.refresh_token]
        ELSE EmptyMap)

\* the last step without the delete (sensitivity variant for C1)
token_answer_without_delete(r) ==
    /\ MayRun(r)
    /\ reqs[r].pc = "delete_token_mapping"
    /\ reqs' = [reqs EXCEPT ![r] = Done(reqs[r], 200, "", "")]
    /\ running' = 0
    /\ UNCHANGED << backend, now, nextId, clients, sessions, tokens,
                    refresh_tokens, resp, regLog, lastGet, vres >>

\* await token_store.delete_token_mapping(code); return JSONResponse(response)
token_delete_mapping(r) ==
    /\ MayRun(r)
    /\ reqs[r].pc = "delete_token_mapping"
    /\ tokens' = Del(tokens, reqs[r].code)
    /\ reqs' = [reqs EXCEPT ![r] =
                  [Done(reqs[r], 200, "", "") EXCEPT
                      !.response = CodeGrantResponse(reqs[r])]]
    /\ running' = 0
    /\ UNCHANGED << backend, now, nextId, clients, sessions, refresh_tokens,
                    resp, regLog, lastGet, vres >>

\* the except clause deleting the code mapping of a request that had passed
\* the checks of the grant (sensitivity variant for C29)
token_store_error_deleting_code(r) ==
    /\ backend = "dynamo"
    /\ reqs[r].pc \in {"get_client", "get_token_mapping",
                       "store_refresh_token", "delete_token_mapping",
                       "get_refresh_token"}
    /\ reqs' = [reqs EXCEPT ![r] =
                  Done(reqs[r], 500, "server_error", "store call failed")]
    /\ tokens' = IF reqs[r].pc \in {"store_refresh_token", "delete_token_mapping"}
                 THEN Del(tokens, reqs[r].code)
                 ELSE tokens
    /\ UNCHANGED << backend, now, nextId, clients, sessions,
                    refresh_tokens, running, resp, regLog, lastGet, vres >>

\* a store call of the DynamoDB store raises (the table cannot be reached):
\* token()'s except clause answers 500 server_error
token_store_error(r) ==
    /\ backend = "dynamo"
    /\ reqs[r].pc \in {"get_client", "get_token_mapping",
                       "store_refresh_token", "delete_token_mapping",
                       "get_refresh_token"}
    /\ reqs' = [reqs EXCEPT ![r] =
                  Done(reqs[r], 500, "server_error", "store call failed")]
    /\ UNCHANGED << backend, now, nextId, clients, sessions, tokens,
                    refresh_tokens, running, resp, regLog, lastGet, vres >>

-----------------------------------------------------------------------------
(* POST /token, grant_type=refresh_token: handle_refresh_token_grant().     *)
(* The POST to Cognito suspends the handler with either store.              *)

\* the body of the token response of the refresh_token grant
RefreshGrantResponse(req, up) ==
    [access_token |->
        AccessTokenClaims(req.client_id, req.mapping.scope, up.access_token,
                          PyInt(IF up.has_expires_in THEN 300
                                ELSE DefaultExpiresIn)),
     token_type |-> "Bearer",
     expires_in |-> PyInt(IF up.has_expires_in THEN 300 ELSE DefaultExpiresIn),
     scope |-> req.mapping.scope]

\* step 3: the refresh token was issued to another client
RefreshClientMismatch(token_mapping, client_id) ==
    token_mapping.client_id /= client_id

\* the lookup of a grant whose refresh tokens are single-use: the mapping is
\* retired by the request that presents the token
token_get_refresh_retiring(r) ==
    /\ MayRun(r)
    /\ reqs[r].pc = "get_refresh_token"
    /\ refresh_tokens' = Del(refresh_tokens, reqs[r].form_refresh_token)
    /\ IF ~GetFound(refresh_tokens, reqs[r].form_refresh_token)
       THEN reqs' = [reqs EXCEPT ![r] =
                       Done(reqs[r], 400, "invalid_grant",
                            "Invalid refresh token")]
       ELSE LET token_mapping ==
                    GetData(refresh_tokens, reqs[r].form_refresh_token)
            IN  IF RefreshClientMismatch(token_mapping, reqs[r].client_id)
                THEN reqs' = [reqs EXCEPT ![r] =
                                Done(reqs[r], 400, "invalid_grant",
                                     "Refresh token was issued to another client")]
                ELSE reqs' = [reqs EXCEPT ![r].mapping = token_mapping,
                                          ![r].pc = "refresh_upstream"]
    /\ running' = 0
    /\ UNCHANGED << backend, now, nextId, clients, sessions, tokens, resp,
                    regLog, lastGet, vres >>

\* await token_store.get_refresh_token(refresh_token), then step 3, up to
\* await client.post(token_url, ...)
token_get_refresh(r) ==
    /\ MayRun(r)
    /\ reqs[r].pc = "get_refresh_token"
    /\ refresh_tokens' = AfterGet(refresh_tokens, reqs[r].form_refresh_token)
    /\ IF ~GetFound(refresh_tokens, reqs[r].form_refresh_token)
       THEN reqs' = [reqs EXCEPT ![r] =
                       Done(reqs[r], 400, "invalid_grant",
                            "Invalid refresh token")]
       ELSE LET token_mapping ==
                    GetData(refresh_tokens, reqs[r].form_refresh_token)
            IN  IF RefreshClientMismatch(token_mapping, reqs[r].client_id)
                THEN reqs' = [reqs EXCEPT ![r] =
                                Done(reqs[r], 400, "invalid_grant",
                                     "Refresh token was issued to another client")]
                ELSE reqs' = [reqs EXCEPT ![r].mapping = token_mapping,
                                          ![r].pc = "refresh_upstream"]
    /\ running' = 0
    /\ UNCHANGED << backend, now, nextId, clients, sessions, tokens, resp,
                    regLog, lastGet, vres >>

\* what the POST to Cognito's /oauth2/token with grant_type refresh_token
\* comes to: as in /callback, and a refresh token it issues is a new one
RefreshUpstreamOutcomes ==
    { [up EXCEPT !.refresh_token = IF @ = "" THEN "" ELSE "cognito-rt-2"] :
        up \in UpstreamOutcomes }

\* an update that keeps the expiration the entry had (sensitivity variant for
\* C22)
UpdatedRefreshEntryOldExpiration(refresh_token, token_data) ==
    IF Has(refresh_tokens, refresh_token)
    THEN [TTLEntry(token_data, RefreshTTL) EXCEPT
             !.expiration = refresh_tokens[refresh_token].expiration]
    ELSE TTLEntry(token_data, RefreshTTL)

\* update_refresh_token: the entry written under refresh_token, with
\* expiration = int(time.time()) + 30 days
UpdatedRefreshEntry(refresh_token, token_data) ==
    TTLEntry(token_data, RefreshTTL)

\* token_mapping['cognito_refresh_token'] = tokens['refresh_token']
RefreshedMapping(token_mapping, up) ==
    [token_mapping EXCEPT !.cognito_refresh_token = up.refresh_token]

\* the grant with a POST that has no timeout: a call that fails to answer
\* leaves the request waiting
token_refresh_upstream_no_timeout(r, up) ==
    /\ MayRun(r)
    /\ reqs[r].pc = "refresh_upstream"
    /\ LET req == [reqs[r] EXCEPT !.upstream = "made",
                                  !.upstream_outcome = up]
           answer == [Done(req, 200, "", "") EXCEPT
                         !.response = RefreshGrantResponse(req, up)]
       IN  IF UpstreamFailed(up)
           THEN \* the handler keeps waiting
                /\ reqs' = [reqs EXCEPT ![r] =
                               [req EXCEPT !.pc = "refresh_pending"]]
                /\ running' = 0
                /\ UNCHANGED refresh_tokens
           ELSE IF up.refresh_token = ""
           THEN /\ reqs' = [reqs EXCEPT ![r] = answer]
                /\ running' = 0
                /\ UNCHANGED refresh_tokens
           ELSE IF backend = "local"
           THEN /\ refresh_tokens' =
                      Put(refresh_tokens, req.form_refresh_token,
                          UpdatedRefreshEntry(req.form_refresh_token,
                                              RefreshedMapping(req.mapping, up)))
                /\ reqs' = [reqs EXCEPT ![r] = answer]
                /\ running' = 0
           ELSE /\ reqs' = [reqs EXCEPT ![r] =
                               [req EXCEPT
                                   !.mapping = RefreshedMapping(req.mapping, up),
                                   !.pc = "update_refresh_token"]]
                /\ running' = 0
                /\ UNCHANGED refresh_tokens
    /\ UNCHANGED << backend, now, nextId, clients, sessions, tokens, resp,
                    regLog, lastGet, vres >>

\* the POST to Cognito comes back with up; steps 4 and 5 up to
\* await token_store.update_refresh_token(refresh_token, token_mapping), which
\* the in-memory store completes at once
token_refresh_upstream(r, up) ==
    /\ MayRun(r)
    /\ reqs[r].pc = "refresh_upstream"
    /\ LET req == [reqs[r] EXCEPT !.upstream = "made",
                                  !.upstream_outcome = up]
           answer == [Done(req, 200, "", "") EXCEPT
                         !.response = RefreshGrantResponse(req, up)]
       IN  IF UpstreamFailed(up)
           THEN \* the except clause of the grant answers
                /\ reqs' = [reqs EXCEPT ![r] =
                               Done(req, 400, "invalid_grant",
                                    "Failed to refresh the token")]
                /\ running' = 0
                /\ UNCHANGED refresh_tokens
           ELSE IF up.refresh_token = ""
           THEN /\ reqs' = [reqs EXCEPT ![r] = answer]
                /\ running' = 0
                /\ UNCHANGED refresh_tokens
           ELSE IF backend = "local"
           THEN /\ refresh_tokens' =
                      Put(refresh_tokens, req.form_refresh_token,
                          UpdatedRefreshEntry(req.form_refresh_token,
                                              RefreshedMapping(req.mapping, up)))
                /\ reqs' = [reqs EXCEPT ![r] = answer]
                /\ running' = 0
           ELSE /\ reqs' = [reqs EXCEPT ![r] =
                               [req EXCEPT
                                   !.mapping = RefreshedMapping(req.mapping, up),
                                   !.pc = "update_refresh_token"]]
                /\ running' = 0
                /\ UNCHANGED refresh_tokens
    /\ UNCHANGED << backend, now, nextId, clients, sessions, tokens, resp,
                    regLog, lastGet, vres >>

\* DynamoDBTokenStore.update_refresh_token returns;
\* return JSONResponse(response)
token_update_refresh(r) ==
    /\ backend = "dynamo"
    /\ reqs[r].pc = "update_refresh_token"
    /\ refresh_tokens' =
          Put(refresh_tokens, reqs[r].form_refresh_token,
              UpdatedRefreshEntry(reqs[r].form_refresh_token, reqs[r].mapping))
    /\ reqs' = [reqs EXCEPT ![r] =
                  [Done(reqs[r], 200, "", "") EXCEPT
                      !.response =
                          RefreshGrantResponse(reqs[r], reqs[r].upstream_outcome)]]
    /\ UNCHANGED << backend, now, nextId, clients, sessions, tokens, running,
                    resp, regLog, lastGet, vres >>

\* DynamoDBTokenStore.update_refresh_token raises, inside the try block of the
\* grant: its except clause answers
token_update_refresh_error(r) ==
    /\ backend = "dynamo"
    /\ reqs[r].pc = "update_refresh_token"
    /\ reqs' = [reqs EXCEPT ![r] =
                  Done(reqs[r], 400, "invalid_grant",
                       "Failed to refresh the token")]
    /\ UNCHANGED << backend, now, nextId, clients, sessions, tokens,
                    refresh_tokens, running, resp, regLog, lastGet, vres >>

-----------------------------------------------------------------------------
(* The environment: the clock, and DynamoDB's time-to-live sweeper *)

ClockSteps == {CodeTTL + 1}

RECURSIVE ClockValues(_)
ClockValues(k) ==
    IF k = 0 THEN {0}
    ELSE ClockValues(k - 1)
            \cup { t + d : t \in ClockValues(k - 1), d \in ClockSteps }

\* int(time.time()) moves on by d seconds between two calls
Tick(d) ==
    /\ LoopFree
    /\ d > 0
    /\ now' = now + d
    /\ lastGet' = NoGet
    /\ UNCHANGED << backend, nextId, clients, sessions, tokens,
                    refresh_tokens, reqs, running, resp, regLog, vres >>

ExpiredKeys(tbl) == { key \in DOMAIN tbl : tbl[key].expiration < now }

\* the table's time-to-live process deletes an item some time after its
\* expiration attribute has passed
dynamo_ttl_sweep ==
    /\ backend = "dynamo"
    /\ \/ \E key \in ExpiredKeys(sessions) :
            /\ sessions' = Del(sessions, key)
            /\ UNCHANGED << tokens, refresh_tokens >>
       \/ \E key \in ExpiredKeys(tokens) :
            /\ tokens' = Del(tokens, key)
            /\ UNCHANGED << sessions, refresh_tokens >>
       \/ \E key \in ExpiredKeys(refresh_tokens) :
            /\ refresh_tokens' = Del(refresh_tokens, key)
            /\ UNCHANGED << sessions, tokens >>
    /\ lastGet' = NoGet
    /\ UNCHANGED << backend, now, nextId, clients, reqs, running, resp,
                    regLog, vres >>

-----------------------------------------------------------------------------
(* The broker: every endpoint, the clock and the sweeper.  /register,       *)
(* /authorize and /callback get the requests of a client that follows the   *)
(* protocol, with every choice of PKCE parameters; /token gets every form.  *)

\* the registration a well-behaved client sends
FlowMetas ==
    { [redirect_uris |-> << UriClient >>, client_name |-> "demo"] }

\* a registered client_id, one that no client has, or none
ClientIdInputs == {0} \cup DOMAIN clients \cup { c + 1 : c \in DOMAIN clients }

AuthorizeQueries ==
    [client_id : DOMAIN clients,
     redirect_uri : { UriClient },
     response_type : { "code" },
     state : { "xyz" },
     code_challenge : Challenges,
     code_challenge_method : Methods,
     scope : { "openid" }]

CallbackQueries ==
    [code : { "abc" }, state : DOMAIN sessions, error : { "" }]

FlowUpstreamOutcomes == { up \in UpstreamOutcomes : up.access_token /= "" }

\* a code in the store, a code already redeemed, or none
CodeInputs == {0} \cup DOMAIN tokens \cup RedeemedCodes

\* every form with its three required parameters; the forms that lack the
\* code or the client_id, and the forms that lack only the redirect_uri, which
\* step 1 answers alike; a form of another grant type
TokenForms ==
    [grant_type : { "authorization_code" },
     code : CodeInputs \ {0},
     client_id : ClientIdInputs \ {0},
     redirect_uri : { UriClient },
     code_verifier : Verifiers,
     refresh_token : {0}]
    \cup
    { f \in [grant_type : { "authorization_code" },
             code : CodeInputs,
             client_id : ClientIdInputs,
             redirect_uri : { << >>, UriClient },
             code_verifier : { << >>, VerifierA },
             refresh_token : {0}] :
        (f.code = 0 \/ f.client_id = 0) /= (f.redirect_uri = << >>) }
    \cup
    [grant_type : { "password" }, code : {0}, client_id : {0},
     redirect_uri : { << >> }, code_verifier : { << >> },
     refresh_token : {0}]

Room(tbl) == Cardinality(DOMAIN tbl) < MaxFlows

Next ==
    \/ \E meta \in FlowMetas : Room(clients) /\ register_client(meta)
    \/ \E q \in AuthorizeQueries : Room(sessions) /\ authorize(q)
    \/ \E q \in CallbackQueries, up \in FlowUpstreamOutcomes :
          Room(tokens) /\ callback(q, up)
    \/ \E r \in Slots, form \in TokenForms : token_request(r, form)
    \/ \E r \in Slots : token_get_client(r)
    \/ \E r \in Slots : token_get_mapping(r)
    \/ \E r \in Slots : token_store_refresh(r)
    \/ \E r \in Slots : token_delete_mapping(r)
    \/ \E r \in Slots : token_store_error(r)
    \/ \E d \in ClockSteps : now + d \in ClockValues(MaxTicks) /\ Tick(d)
    \/ dynamo_ttl_sweep

Spec == Init /\ [][Next]_vars

-----------------------------------------------------------------------------
(* The token store on its own: the calls of LocalTokenStore and            *)
(* DynamoDBTokenStore for sessions, code mappings and refresh tokens, made *)
(* directly, with a clock that reaches each time-to-live to the second.    *)

\* what a get call read and answered
GetAnswer(op, tbl, key) ==
    [op |-> op, key |-> key, at |-> now,
     present |-> Has(tbl, key),
     found |-> GetFound(tbl, key),
     data |-> IF GetFound(tbl, key) THEN GetData(tbl, key) ELSE EmptyMap]

store_session(session_id, session_data) ==
    /\ LoopFree
    /\ sessions' = Put(sessions, session_id, TTLEntry(session_data, SessionTTL))
    /\ lastGet' = NoGet
    /\ UNCHANGED << backend, now, nextId, clients, tokens, refresh_tokens,
                    reqs, running, resp, regLog, vres >>

get_session(session_id) ==
    /\ LoopFree
    /\ lastGet' = GetAnswer("get_session", sessions, session_id)
    /\ sessions' = AfterGet(sessions, session_id)
    /\ UNCHANGED << backend, now, nextId, clients, tokens, refresh_tokens,
                    reqs, running, resp, regLog, vres >>

delete_session(session_id) ==
    /\ LoopFree
    /\ sessions' = Del(sessions, session_id)
    /\ lastGet' = NoGet
    /\ UNCHANGED << backend, now, nextId, clients, tokens, refresh_tokens,
                    reqs, running, resp, regLog, vres >>

store_token_mapping(auth_code, token_data) ==
    /\ LoopFree
    /\ tokens' = Put(tokens, auth_code, TTLEntry(token_data, CodeTTL))
    /\ lastGet' = NoGet
    /\ UNCHANGED << backend, now, nextId, clients, sessions, refresh_tokens,
                    reqs, running, resp, regLog, vres >>

get_token_mapping(auth_code) ==
    /\ LoopFree
    /\ lastGet' = GetAnswer("get_token_mapping", tokens, auth_code)
    /\ tokens' = AfterGet(tokens, auth_code)
    /\ UNCHANGED << backend, now, nextId, clients, sessions, refresh_tokens,
                    reqs, running, resp, regLog, vres >>

delete_token_mapping(auth_code) ==
    /\ LoopFree
    /\ tokens' = Del(tokens, auth_code)
    /\ lastGet' = NoGet
    /\ UNCHANGED << backend, now, nextId, clients, sessions, refresh_tokens,
                    reqs, running, resp, regLog, vres >>

store_refresh_token(refresh_token, token_data) ==
    /\ LoopFree
    /\ refresh_tokens' =
          Put(refresh_tokens, refresh_token, TTLEntry(token_data, RefreshTTL))
    /\ lastGet' = NoGet
    /\ UNCHANGED << backend, now, nextId, clients, sessions, tokens,
                    reqs, running, resp, regLog, vres >>

get_refresh_token(refresh_token) ==
    /\ LoopFree
    /\ lastGet' = GetAnswer("get_refresh_token", refresh_tokens, refresh_token)
    /\ refresh_tokens' = AfterGet(refresh_tokens, refresh_token)
    /\ UNCHANGED << backend, now, nextId, clients, sessions, tokens,
                    reqs, running, resp, regLog, vres >>

\* the same write as store_refresh_token, whether or not the key exists
update_refresh_token(refresh_token, token_data) ==
    /\ LoopFree
    /\ refresh_tokens' =
          Put(refresh_tokens, refresh_token, TTLEntry(token_data, RefreshTTL))
    /\ lastGet' = NoGet
    /\ UNCHANGED << backend, now, nextId, clients, sessions, tokens,
                    reqs, running, resp, regLog, vres >>

delete_refresh_token(refresh_token) ==
    /\ LoopFree
    /\ refresh_tokens' = Del(refresh_tokens, refresh_token)
    /\ lastGet' = NoGet
    /\ UNCHANGED << backend, now, nextId, clients, sessions, tokens,
                    reqs, running, resp, regLog, vres >>

\* the keys and the record the calls are made with
StoreKeys == {1, 2}
\* a record with a float and an int, as the handlers store them
StoreDatas ==
    { [client_id |-> 1, created_at |-> PyFloat(0),
       expires_in |-> PyInt(DefaultExpiresIn)] }

\* the clock readings of the calls: the second a time-to-live ends for an
\* entry written at 0 or at 1, and the seconds around it
StoreTimes ==
    {0, 1} \cup { ttl + d : ttl \in {CodeTTL, SessionTTL, RefreshTTL},
                            d \in {0, 1, 2} }

\* at most MaxFlows entries are kept at a time
StoreRoom(tbl, key) ==
    \/ Has(tbl, key)
    \/ Cardinality(DOMAIN sessions) + Cardinality(DOMAIN tokens)
         + Cardinality(DOMAIN refresh_tokens) < MaxFlows

NextStore ==
    \/ \E key \in StoreKeys, data \in StoreDatas :
          StoreRoom(sessions, key) /\ store_session(key, data)
    \/ \E key \in StoreKeys : get_session(key)
    \/ \E key \in StoreKeys : delete_session(key)
    \/ \E key \in StoreKeys, data \in StoreDatas :
          StoreRoom(tokens, key) /\ store_token_mapping(key, data)
    \/ \E key \in StoreKeys : get_token_mapping(key)
    \/ \E key \in StoreKeys : delete_token_mapping(key)
    \/ \E key \in StoreKeys, data \in StoreDatas :
          StoreRoom(refresh_tokens, key) /\ store_refresh_token(key, data)
    \/ \E key \in StoreKeys : get_refresh_token(key)
    \/ \E key \in StoreKeys, data \in StoreDatas :
          StoreRoom(refresh_tokens, key) /\ update_refresh_token(key, data)
    \/ \E key \in StoreKeys : delete_refresh_token(key)
    \/ \E t \in StoreTimes : t > now /\ Tick(t - now)
    \/ dynamo_ttl_sweep

SpecStore == Init /\ [][NextStore]_vars

\* the same calls, from each configuration the process can start with
SpecStartup == InitStartup /\ [][NextStore]_vars

-----------------------------------------------------------------------------
(* Token validation: validate_token and validate_cognito_token.  A JWT is  *)
(* its header fields kid and alg, the key it was signed with, and its      *)
(* claims; a kid is a sequence of pieces so that startswith can be         *)
(* computed.                                                                *)

KidMcp1 == << "mcp-", "1" >>
KidPool == << "pool-key-1" >>
KidUnknown == << "pool-key-9" >>
KidAbsent == << >>

\* jwt.decode's exp check: ExpiredSignatureError when exp <= now
JwtExpired(claims) == claims.exp <= now

\* the JWKS document of the user pool, or the failure to fetch it
JwksOutcomes == {"keys", "error"}
JwksKids == {KidPool}

\* jwt.decode(token, public_key, algorithms=['RS256'],
\*            options={'verify_exp': True}, issuer=issuer)
CognitoDecodes(token) ==
    /\ token.alg = "RS256"
    /\ token.key = "pool-key"
    /\ ~JwtExpired(token.claims)
    /\ "iss" \in DOMAIN token.claims
    /\ token.claims.iss = "pool-issuer"

InvalidResult == [valid |-> FALSE, claims |-> EmptyMap]

\* a text that is not header.payload.signature (the empty text too): its
\* header cannot be read
NotAJwt == [kid |-> KidAbsent, alg |-> "", key |-> "", claims |-> EmptyMap]

\* jwt.get_unverified_header(token) returns
Parses(token) == token.alg /= ""

\* the validation without the comparison of the client_id claim
\* (sensitivity variant for C31)
validate_cognito_token_any_client(token, jwks) ==
    IF jwks = "error" THEN InvalidResult
    ELSE IF ~Parses(token) THEN InvalidResult
    ELSE IF token.kid = KidAbsent THEN InvalidResult
    ELSE IF token.kid \notin JwksKids THEN InvalidResult
    ELSE IF ~CognitoDecodes(token) THEN InvalidResult
    ELSE IF ~("token_use" \in DOMAIN token.claims
              /\ token.claims.token_use = "access") THEN InvalidResult
    ELSE [valid |-> TRUE, claims |-> token.claims]

validate_cognito_token(token, jwks) ==
    IF jwks = "error" THEN InvalidResult
    ELSE IF ~Parses(token) THEN InvalidResult
    ELSE IF token.kid = KidAbsent THEN InvalidResult
    ELSE IF token.kid \notin JwksKids THEN InvalidResult
    ELSE IF ~CognitoDecodes(token) THEN InvalidResult
    ELSE IF ~("token_use" \in DOMAIN token.claims
              /\ token.claims.token_use = "access") THEN InvalidResult
    ELSE IF ~("client_id" \in DOMAIN token.claims
              /\ token.claims.client_id = "app-client") THEN InvalidResult
    ELSE [valid |-> TRUE, claims |-> token.claims]

\* the test that also takes a header without kid for the server's own
\* (sensitivity variant for C30)
IsMcpKidOrAbsent(kid) == kid = KidAbsent \/ StartsWith(kid, << "mcp-" >>)

\* headers.get('kid') and headers.get('kid').startswith('mcp-')
IsMcpKid(kid) == kid /= KidAbsent /\ StartsWith(kid, << "mcp-" >>)

\* jwt.decode(token, secret_key, algorithms=['HS256'],
\*            options={'verify_exp': True}, audience='mcp-server')
BrokerDecodes(token) ==
    /\ token.alg = "HS256"
    /\ token.key = "JWT_SECRET_KEY"
    /\ ~JwtExpired(token.claims)
    /\ "aud" \in DOMAIN token.claims
    /\ token.claims.aud = "mcp-server"

\* the MCP branch without the check of the bound token (sensitivity
\* variant for C9)
ValidateResultUnbound(token, jwks) ==
    IF ~Parses(token) THEN InvalidResult
    ELSE IF IsMcpKid(token.kid)
    THEN IF ~BrokerDecodes(token) THEN InvalidResult
         ELSE [valid |-> TRUE, claims |-> token.claims]
    ELSE validate_cognito_token(token, jwks)

\* what validate_token returns
ValidateResult(token, jwks) ==
    IF ~Parses(token) THEN InvalidResult
    ELSE IF IsMcpKid(token.kid)
    THEN IF ~BrokerDecodes(token) THEN InvalidResult
         ELSE IF /\ "cognito_token" \in DOMAIN token.claims
                 /\ ~validate_cognito_token(token.claims.cognito_token, jwks).valid
         THEN InvalidResult
         ELSE [valid |-> TRUE, claims |-> token.claims]
    ELSE validate_cognito_token(token, jwks)

validate_token(token, jwks) ==
    /\ LoopFree
    /\ vres' = [op |-> "validate_token", token |-> token, jwks |-> jwks,
                at |-> now,
                valid |-> ValidateResult(token, jwks).valid,
                claims |-> ValidateResult(token, jwks).claims]
    /\ UNCHANGED << backend, now, nextId, clients, sessions, tokens,
                    refresh_tokens, reqs, running, resp, regLog, lastGet >>

\* the exp claims of the tokens presented and the instants they are
\* presented at
ExpValues == {DefaultExpiresIn, 2 * DefaultExpiresIn}
ValidateTimes == {0} \cup { exp + 1 : exp \in ExpValues }

\* the access token Cognito issues for the app client, and the tokens that
\* differ from it in one header field, the signing key or one claim
GoodCognitoToken(exp) ==
    [kid |-> KidPool, alg |-> "RS256", key |-> "pool-key",
     claims |-> [exp |-> exp, iss |-> "pool-issuer", token_use |-> "access",
                 client_id |-> "app-client"]]

CognitoTokens ==
    UNION { { GoodCognitoToken(exp),
              [GoodCognitoToken(exp) EXCEPT !.kid = KidUnknown],
              [GoodCognitoToken(exp) EXCEPT !.kid = KidAbsent],
              [GoodCognitoToken(exp) EXCEPT !.alg = "HS256"],
              [GoodCognitoToken(exp) EXCEPT !.key = "other-key"],
              [GoodCognitoToken(exp) EXCEPT !.claims.iss = "other-issuer"],
              [GoodCognitoToken(exp) EXCEPT !.claims.token_use = "id"],
              [GoodCognitoToken(exp) EXCEPT !.claims.client_id = "other-client"] }
            : exp \in ExpValues }

\* the access token the /token endpoint signs around a Cognito token, and
\* the tokens that differ from it in one header field, the signing key or
\* the audience
IssuedToken(exp, cognito_token) ==
    [kid |-> KidMcp1, alg |-> "HS256", key |-> "JWT_SECRET_KEY",
     claims |-> [aud |-> "mcp-server", exp |-> exp,
                 cognito_token |-> cognito_token]]

BoundTokens ==
    UNION { { IssuedToken(exp, ct),
              [IssuedToken(exp, ct) EXCEPT !.kid = KidAbsent],
              [IssuedToken(exp, ct) EXCEPT !.alg = "none"],
              [IssuedToken(exp, ct) EXCEPT !.key = "other-key"],
              [IssuedToken(exp, ct) EXCEPT !.claims.aud = "other-server"] }
            : exp \in ExpValues, ct \in CognitoTokens }

\* MCP tokens that carry no cognito_token claim
UnboundTokens ==
    { [kid |-> KidMcp1, alg |-> "HS256", key |-> key,
       claims |-> [aud |-> "mcp-server", exp |-> exp]]
        : key \in {"JWT_SECRET_KEY", "other-key"}, exp \in ExpValues }

PresentedTokens == BoundTokens \cup UnboundTokens \cup CognitoTokens

NextValidate ==
    \/ \E token \in PresentedTokens, jwks \in JwksOutcomes :
          validate_token(token, jwks)
    \/ \E t \in ValidateTimes : t > now /\ Tick(t - now)

SpecValidate == Init /\ [][NextValidate]_vars

-----------------------------------------------------------------------------
(* OAuthMiddlewareCognito.dispatch, of the authorization server             *)
(* (sample-auth-python) and of the MCP server (sample-weather-sse-python,   *)
(* BASE_PATH ''): both call the same validate_token.  A path is the         *)
(* sequence of the pieces its text is the concatenation of; an              *)
(* Authorization header is absent, or the pieces that precede its           *)
(* credentials followed by the credentials, a token.                        *)

\* the paths the middleware hands on without looking at the request
ExemptPath(server, path) ==
    IF server = "auth"
    THEN \/ path = << "/" >>
         \/ StartsWith(path, << "/.well-known" >>)
         \/ path = << "/register" >>
         \/ path = << "/authorize" >>
         \/ path = << "/callback" >>
         \/ path = << "/token" >>
    ELSE path = << "/" >>

\* the header check that only asks for a header (sensitivity variant for
\* C23)
HeaderRefusedOnlyIfAbsent(auth_header) == ~auth_header.present

\* not auth_header or not auth_header.startswith('Bearer '); a token does
\* not begin with 'Bearer ', and the text of no pieces and no token is ''
HeaderRefused(auth_header) ==
    \/ ~auth_header.present
    \/ auth_header.scheme = << >>
    \/ Head(auth_header.scheme) /= "Bearer "

\* auth_header.replace('Bearer ', ''): every 'Bearer ' goes; what is left is
\* the credentials, or a text that still has other pieces before them
BearerToken(auth_header) ==
    IF SelectSeq(auth_header.scheme, LAMBDA piece : piece /= "Bearer ") = << >>
    THEN auth_header.credentials
    ELSE NotAJwt

\* the JSONResponse of the middleware
Unauthorized(description) ==
    [called_next |-> FALSE, status |-> 401, error |-> "invalid_token",
     error_description |-> description]

\* return await call_next(request)
CallNext == [called_next |-> TRUE, status |-> 0, error |-> "",
             error_description |-> ""]

\* a validation that tells the caller which tokens had expired (sensitivity
\* variant for C24)
DispatchValidationTellsExpiry(auth_header, jwks) ==
    LET token == BearerToken(auth_header)
        result == ValidateResult(token, jwks)
    IN  IF ~result.valid /\ Parses(token) /\ JwtExpired(token.claims)
        THEN [valid |-> FALSE, claims |-> [exp |-> token.claims.exp]]
        ELSE result

\* is_valid, claims = await validate_token(token)
DispatchValidation(auth_header, jwks) ==
    ValidateResult(BearerToken(auth_header), jwks)

\* dispatch(request, call_next): what the middleware answers or hands on, the
\* token it had validated (validated: whether it got that far) and
\* request.state.user
dispatch(server, path, auth_header, jwks) ==
    /\ LoopFree
    /\ LET request == [op |-> "dispatch", server |-> server, path |-> path,
                       auth_header |-> auth_header, jwks |-> jwks, at |-> now]
           result == DispatchValidation(auth_header, jwks)
       IN  vres' =
             IF ExemptPath(server, path)
             THEN request @@ CallNext @@
                  [validated |-> FALSE, token |-> NotAJwt, valid |-> FALSE,
                   claims |-> EmptyMap, user |-> EmptyMap]
             ELSE IF HeaderRefused(auth_header)
             THEN request
                  @@ Unauthorized("Missing or invalid authorization header")
                  @@ [validated |-> FALSE, token |-> NotAJwt, valid |-> FALSE,
                      claims |-> EmptyMap, user |-> EmptyMap]
             ELSE IF ~result.valid
             THEN request @@ Unauthorized("Token validation failed")
                  @@ [validated |-> TRUE, token |-> BearerToken(auth_header),
                      valid |-> FALSE, claims |-> result.claims,
                      user |-> EmptyMap]
             ELSE request @@ CallNext
                  @@ [validated |-> TRUE, token |-> BearerToken(auth_header),
                      valid |-> TRUE, claims |-> result.claims,
                      user |-> result.claims]
    /\ UNCHANGED << backend, now, nextId, clients, sessions, tokens,
                    refresh_tokens, reqs, running, resp, regLog, lastGet >>

\* the requests: every path without a header and with a good bearer token;
\* on a protected path of the MCP server every shape of header, and the
\* bearer header with every token
DispatchPaths ==
    { << "/" >>, << "/.well-known", "/oauth-authorization-server" >>,
      << "/.well-known", "-other" >>, << "/register" >>, << "/authorize" >>,
      << "/callback" >>, << "/token" >>, << "/token", "/" >>, << "/sse" >>,
      << "/messages/" >> }

Schemes ==
    { << >>, << "Bearer " >>, << "bearer " >>, << "Basic " >>, << "Bearer" >>,
      << "Bearer ", "Bearer " >>, << "Bearer ", "Basic " >> }

NoHeader == [present |-> FALSE, scheme |-> << >>, credentials |-> NotAJwt]

\* tokens signed by one party under the key identifier of the other
CrossTokens ==
    { [GoodCognitoToken(exp) EXCEPT !.kid = KidMcp1] : exp \in ExpValues }
    \cup { [kid |-> kid, alg |-> "HS256", key |-> "JWT_SECRET_KEY",
            claims |-> [aud |-> "mcp-server", exp |-> exp]] :
              kid \in {KidPool, KidUnknown}, exp \in ExpValues }

DispatchTokens ==
    {NotAJwt} \cup CognitoTokens \cup UnboundTokens \cup CrossTokens
    \cup { t \in BoundTokens : t.claims.exp = 2 * DefaultExpiresIn }

GoodIssuedToken ==
    IssuedToken(DefaultExpiresIn, GoodCognitoToken(DefaultExpiresIn))

DispatchRequests ==
    [server : {"auth", "weather"}, path : DispatchPaths,
     auth_header : { NoHeader,
                     [present |-> TRUE, scheme |-> << "Bearer " >>,
                      credentials |-> GoodIssuedToken] },
     jwks : {"keys"}]
    \cup
    [server : {"weather"}, path : { << "/sse" >> },
     auth_header : [present : {TRUE}, scheme : Schemes,
                    credentials : { NotAJwt, GoodIssuedToken,
                                    GoodCognitoToken(DefaultExpiresIn) }],
     jwks : {"keys"}]
    \cup
    [server : {"weather"}, path : { << "/sse" >> },
     auth_header : [present : {TRUE}, scheme : { << "Bearer " >> },
                    credentials : DispatchTokens],
     jwks : JwksOutcomes]

NextDispatch ==
    \/ \E q \in DispatchRequests :
          dispatch(q.server, q.path, q.auth_header, q.jwks)
    \/ \E t \in ValidateTimes : t > now /\ Tick(t - now)

SpecDispatch == Init /\ [][NextDispatch]_vars

-----------------------------------------------------------------------------
(* Dynamic client registration on its own: /register with every kind of    *)
(* metadata document, and lookups in the client registry.                  *)

\* token_store.get_client(client_id)
get_client(client_id) ==
    /\ LoopFree
    /\ lastGet' = [op |-> "get_client", key |-> client_id, at |-> now,
                   present |-> Has(clients, client_id),
                   found |-> ClientFound(client_id),
                   data |-> IF ClientFound(client_id)
                            THEN ClientData(client_id)
                            ELSE EmptyMap]
    /\ UNCHANGED << backend, now, nextId, clients, sessions, tokens,
                    refresh_tokens, reqs, running, resp, regLog, vres >>

\* a client_id that a metadata document names itself
ChosenId == 9

BaseMeta == [redirect_uris |-> << UriClient >>, client_name |-> "demo"]

\* valid documents: the required fields alone, loopback redirect URIs, and
\* additional fields, among them the names of the fields the server fills in
ValidMetas ==
    { BaseMeta,
      [redirect_uris |-> << UriLocalhost, UriLoopback >>, client_name |-> "demo"],
      BaseMeta @@ [scope |-> "openid"],
      BaseMeta @@ [client_id |-> ChosenId],
      BaseMeta @@ [client_secret |-> ChosenId] }

\* documents /register refuses
InvalidMetas ==
    { [redirect_uris |-> << UriClient, UriPlainHttp >>, client_name |-> "demo"],
      [redirect_uris |-> << UriClient >>],
      [client_name |-> "demo"] }

\* documents whose redirect_uris is the empty list, or holds a plain HTTP
\* URI of a host that is not loopback but is spelt like one at its start
EdgeMetas ==
    { [redirect_uris |-> << >>, client_name |-> "demo"],
      [redirect_uris |-> << UriClient, UriLocalhostPrefix >>, client_name |-> "demo"],
      [redirect_uris |-> << UriLoopbackPrefix >>, client_name |-> "demo"] }

RegisterMetas == ValidMetas \cup InvalidMetas \cup EdgeMetas

LookupIds == DOMAIN clients \cup {ChosenId}

NextRegister ==
    \/ \E meta \in RegisterMetas : register_client(meta)
    \/ \E client_id \in LookupIds : get_client(client_id)

SpecRegister == Init /\ [][NextRegister]_vars


-----------------------------------------------------------------------------
(* /register, /authorize and /callback on their own: one registered client *)
(* and every shape of /authorize and /callback request, with every outcome *)
(* of the upstream exchange and a clock that reaches the session           *)
(* time-to-live to the second.                                             *)

MaxSessions == 1

\* the request of a client that follows the protocol
BaseQuery(client_id) ==
    [client_id |-> client_id, redirect_uri |-> UriClient,
     response_type |-> "code", state |-> "xyz",
     code_challenge |-> S256Challenge(VerifierA),
     code_challenge_method |-> "S256", scope |-> "openid"]

\* every choice of client_id (0: absent), redirect_uri (<< >>: absent) and
\* response_type ("": absent), and for the request that follows the protocol
\* every optional parameter absent in turn
AllAuthorizeQueries ==
    { [BaseQuery(c) EXCEPT !.redirect_uri = u, !.response_type = t] :
        c \in ClientIdInputs, u \in { << >>, UriClient, UriOther },
        t \in { "", "code", "token" } }
    \cup { [BaseQuery(c) EXCEPT !.state = ""] : c \in DOMAIN clients }
    \cup { [BaseQuery(c) EXCEPT !.scope = ""] : c \in DOMAIN clients }
    \cup { [BaseQuery(c) EXCEPT !.code_challenge = << >>,
                                !.code_challenge_method = ""] :
             c \in DOMAIN clients }

\* every choice of code ("": absent), state (0: absent; a session id, or
\* nextId, the id of no session) and error ("": absent)
AllCallbackQueries ==
    [code : { "", "abc" },
     state : {0, nextId} \cup DOMAIN sessions,
     error : { "", "access_denied" }]

FlowClock == { 0, SessionTTL, SessionTTL + 1 }

NextFlow ==
    \/ \E meta \in FlowMetas : clients = EmptyMap /\ register_client(meta)
    \/ \E q \in AllAuthorizeQueries :
          Cardinality(DOMAIN sessions) < MaxSessions /\ authorize(q)
    \/ \E q \in AllCallbackQueries, up \in UpstreamOutcomes :
          tokens = EmptyMap /\ callback(q, up)
    \/ \E t \in FlowClock : Tick(t - now)
    \/ dynamo_ttl_sweep

SpecFlow == Init /\ [][NextFlow]_vars


-----------------------------------------------------------------------------
(* The token endpoint with both grants: one client takes the flow with an   *)
(* S256 challenge and redeems the code; /token gets authorization_code,     *)
(* refresh_token and other forms; the clock reaches past the time-to-live   *)
(* of a code and of a refresh token.                                        *)

\* authorization_code forms: a code in the store or redeemed, the client,
\* a redirect_uri, and the verifier or another
CodeForms ==
    [grant_type : { "authorization_code" },
     code : CodeInputs \ {0},
     client_id : DOMAIN clients,
     redirect_uri : { UriClient },
     code_verifier : { VerifierA, VerifierB },
     refresh_token : {0}]

\* a refresh token in the store, one that is not, or none
RefreshTokenInputs ==
    {0} \cup DOMAIN refresh_tokens \cup { t + 1 : t \in DOMAIN refresh_tokens }

RefreshForms ==
    [grant_type : { "refresh_token" },
     code : {0},
     client_id : ClientIdInputs,
     redirect_uri : { << >> },
     code_verifier : { << >> },
     refresh_token : RefreshTokenInputs]

\* forms of another grant type, or of none (""), that carry what would
\* otherwise redeem a code and a refresh token
OtherGrantForms ==
    [grant_type : { "", "password" },
     code : DOMAIN tokens,
     client_id : DOMAIN clients,
     redirect_uri : { UriClient },
     code_verifier : { VerifierA },
     refresh_token : {0} \cup DOMAIN refresh_tokens]

AllTokenForms == CodeForms \cup RefreshForms \cup OtherGrantForms

TokenClock == { 0, CodeTTL + 1, RefreshTTL + 1 }

NextToken ==
    \/ \E meta \in FlowMetas : clients = EmptyMap /\ register_client(meta)
    \/ \E c \in DOMAIN clients : sessions = EmptyMap /\ authorize(BaseQuery(c))
    \/ \E q \in CallbackQueries, up \in FlowUpstreamOutcomes :
          Room(tokens) /\ callback(q, up)
    \/ \E r \in Slots, form \in AllTokenForms : token_request(r, form)
    \/ \E r \in Slots : token_get_client(r)
    \/ \E r \in Slots : token_get_mapping(r)
    \/ \E r \in Slots : token_store_refresh(r)
    \/ \E r \in Slots : token_delete_mapping(r)
    \/ \E r \in Slots : token_store_error(r)
    \/ \E r \in Slots : token_get_refresh(r)
    \/ \E r \in Slots, up \in RefreshUpstreamOutcomes :
          token_refresh_upstream(r, up)
    \/ \E r \in Slots : token_update_refresh(r)
    \/ \E r \in Slots : token_update_refresh_error(r)
    \/ \E t \in TokenClock : Tick(t - now)
    \/ dynamo_ttl_sweep

SpecToken == Init /\ [][NextToken]_vars

-----------------------------------------------------------------------------
(* The redemption of a code with every kind of redirect_uri: none, the one  *)
(* of the session, one the client did not register, a plain HTTP one.       *)

RedeemForms ==
    [grant_type : { "authorization_code" },
     code : CodeInputs \ {0},
     client_id : DOMAIN clients,
     redirect_uri : { << >>, UriClient, UriOther, UriPlainHttp },
     code_verifier : { VerifierA, VerifierB },
     refresh_token : {0}]

NextRedeem ==
    \/ \E meta \in FlowMetas : clients = EmptyMap /\ register_client(meta)
    \/ \E c \in DOMAIN clients : sessions = EmptyMap /\ authorize(BaseQuery(c))
    \/ \E q \in CallbackQueries, up \in FlowUpstreamOutcomes :
          Room(tokens) /\ callback(q, up)
    \/ \E r \in Slots, form \in RedeemForms : token_request(r, form)
    \/ \E r \in Slots : token_get_client(r)
    \/ \E r \in Slots : token_get_mapping(r)
    \/ \E r \in Slots : token_store_refresh(r)
    \/ \E r \in Slots : token_delete_mapping(r)
    \/ \E r \in Slots : token_store_error(r)
    \/ \E d \in ClockSteps : now + d \in ClockValues(MaxTicks) /\ Tick(d)
    \/ dynamo_ttl_sweep

SpecRedeem == Init /\ [][NextRedeem]_vars

-----------------------------------------------------------------------------
(* The refresh_token grant on its own: two /token requests at a time, from   *)
(* the state the stores are in once one client has registered, authorized   *)
(* and redeemed its code at second 0 (the session stays, the code is gone,  *)
(* the refresh mapping is stored), with an upstream that answers each        *)
(* refresh with a new refresh token.                                        *)

\* the stores after register, /authorize, /callback and the redemption
RefreshFlowClients == Put(EmptyMap, 1, ClientEntry(ClientInfo(BaseMeta, 1, 2)))

RefreshFlowSessions ==
    Put(EmptyMap, 3, TTLEntry(SessionData(BaseQuery(1)), SessionTTL))

RefreshFlowRefreshTokens ==
    Put(EmptyMap, 5,
        TTLEntry(RefreshTokenData(1, [cognito_refresh_token |-> "cognito-rt",
                                      scope |-> "openid"]),
                 RefreshTTL))

InitRefresh ==
    /\ backend \in { get_token_store(table_name, init) :
                        table_name \in TableNames, init \in InitOutcomes }
    /\ now = 0
    /\ nextId = 6
    /\ clients = RefreshFlowClients
    /\ sessions = RefreshFlowSessions
    /\ tokens = EmptyMap
    /\ refresh_tokens = RefreshFlowRefreshTokens
    /\ reqs = [r \in Slots |-> IdleReq]
    /\ running = 0
    /\ resp = NoResp
    /\ regLog = << ClientInfo(BaseMeta, 1, 2) >>
    /\ lastGet = NoGet
    /\ vres = [op |-> "none"]

\* the refresh tokens Cognito issues in answer to a refresh, in the order it
\* issues them: each supersedes the ones before it
RotatedRefreshTokens == << "cognito-rt-2", "cognito-rt-3" >>

\* what the POST comes to, with each refresh token Cognito may issue
RotatingUpstreamOutcomes ==
    { [up EXCEPT !.refresh_token = IF @ = "" THEN "" ELSE RotatedRefreshTokens[i]] :
        up \in UpstreamOutcomes, i \in 1..Len(RotatedRefreshTokens) }

\* the refresh tokens Cognito has answered a refresh request with
IssuedUpstream ==
    { reqs[r].upstream_outcome.refresh_token : r \in Slots } \ { "" }

\* an answer of Cognito carries no refresh token or the next one it issues
InIssueOrder(up) ==
    \/ up.refresh_token = ""
    \/ \E i \in 1..Len(RotatedRefreshTokens) :
          /\ up.refresh_token = RotatedRefreshTokens[i]
          /\ IssuedUpstream = { RotatedRefreshTokens[j] : j \in 1..(i - 1) }

\* the POST of request r to Cognito comes back
refresh_response(r) ==
    \E up \in RotatingUpstreamOutcomes :
        InIssueOrder(up) /\ token_refresh_upstream(r, up)

NextRefresh ==
    \/ \E r \in Slots, form \in RefreshForms : token_request(r, form)
    \/ \E r \in Slots : token_get_client(r)
    \/ \E r \in Slots : token_get_refresh(r)
    \/ \E r \in Slots : refresh_response(r)
    \/ \E r \in Slots : token_update_refresh(r)
    \/ \E r \in Slots : token_update_refresh_error(r)
    \/ \E r \in Slots : token_store_error(r)
    \/ \E t \in TokenClock : Tick(t - now)
    \/ dynamo_ttl_sweep

SpecRefresh == InitRefresh /\ [][NextRefresh]_vars

\* the event loop resumes every handler that can go on: a store call returns
\* or raises, and the POST to Cognito returns, raises or times out (timeout=30)
SpecRefreshLive ==
    /\ SpecRefresh
    /\ \A r \in Slots :
          /\ WF_vars(token_get_client(r) \/ token_store_error(r))
          /\ WF_vars(token_get_refresh(r) \/ token_store_error(r))
          /\ WF_vars(refresh_response(r))
          /\ WF_vars(token_update_refresh(r) \/ token_update_refresh_error(r))

-----------------------------------------------------------------------------
(* Claims about the authorization_code grant *)

AuthCodeDone(r) ==
    reqs[r].pc = "done" /\ reqs[r].grant_type = "authorization_code"

\* the answer token()'s except clause gives when a store call raised
StoreFailed(r) ==
    reqs[r].status = 500 /\ reqs[r].error_description = "store call failed"

\* request r passed the client and PKCE checks and goes on to issue a token
Passes(req) == req.pc \in {"store_refresh_token", "delete_token_mapping"}

\* C1 as stated: once a token response has been returned for a code, every
\* later authorization_code request that presents the code is answered
\* 400 invalid_grant (a request the store failed on aside).
C1_EveryLaterRequestInvalidGrant ==
    \A r \in Slots :
        AuthCodeDone(r) /\ reqs[r].after /\ ~StoreFailed(r)
            => reqs[r].status = 400 /\ reqs[r].error = "invalid_grant"

\* C1 as amended: once a token response has been returned for a code, no
\* later authorization_code request that presents the code gets a token: one
\* that carries code, client_id and redirect_uri is answered 400
\* invalid_grant (500 server_error if the store call raises), one that lacks
\* client_id or redirect_uri is answered 400 invalid_request.
C1_RedeemedCodeNeverRedeemedAgain ==
    \A r \in Slots :
        reqs[r].after /\ reqs[r].grant_type = "authorization_code"
            => /\ ~Passes(reqs[r])
               /\ reqs[r].pc = "done" =>
                    /\ reqs[r].status /= 200
                    /\ \/ backend = "dynamo" /\ StoreFailed(r)
                       \/ reqs[r].status = 400 /\ reqs[r].error =
                             IF reqs[r].complete THEN "invalid_grant"
                                                 ELSE "invalid_request"

\* C1 witness: a complete request for a code redeemed before it arrived has
\* been answered invalid_grant
C1_Witness ==
    \E r \in Slots :
        /\ AuthCodeDone(r) /\ reqs[r].after /\ reqs[r].complete
        /\ reqs[r].status = 400 /\ reqs[r].error = "invalid_grant"

\* C2: no two /token requests get a token response for the same code.
C2_AtMostOneTokenPerCode ==
    \A r1, r2 \in Slots :
        /\ r1 /= r2
        /\ AuthCodeDone(r1) /\ reqs[r1].status = 200
        /\ AuthCodeDone(r2) /\ reqs[r2].status = 200
        => reqs[r1].code /= reqs[r2].code

\* the step in which request r reads the code mapping and finds it
ReadsMapping(r) ==
    /\ reqs[r].pc = "get_token_mapping"
    /\ reqs'[r].pc /= "get_token_mapping"
    /\ reqs'[r].error_description /= "store call failed"
    /\ GetFound(tokens, reqs[r].code)

\* C3: for a mapping that recorded challenge C with method S256 and a request
\* of the same client with a non-empty verifier, the PKCE check passes iff
\* base64url(sha256(verifier)) without padding is C, and every other
\* verifier is answered 400 invalid_grant.
C3_PkceSucceedsIffVerifierReproducesChallenge ==
    [][\A r \in Slots :
        LET m == tokens[reqs[r].code].data
        IN  /\ ReadsMapping(r)
            /\ m.client_id = reqs[r].client_id
            /\ m.code_challenge /= << >>
            /\ m.code_challenge_method = "S256"
            /\ reqs[r].code_verifier /= << >>
            => IF S256Challenge(reqs[r].code_verifier) = m.code_challenge
               THEN Passes(reqs'[r])
               ELSE /\ reqs'[r].pc = "done"
                    /\ reqs'[r].status = 400
                    /\ reqs'[r].error = "invalid_grant"]_vars

\* C4: whatever code_challenge_method /authorize was given, a request for a
\* code whose mapping recorded a code_challenge passes only if its
\* code_verifier reproduces that challenge under S256.
C4_PkceCannotBeBypassed ==
    [][\A r \in Slots :
        LET m == tokens[reqs[r].code].data
        IN  /\ ReadsMapping(r)
            /\ m.code_challenge /= << >>
            /\ Passes(reqs'[r])
            => /\ reqs[r].code_verifier /= << >>
               /\ S256Challenge(reqs[r].code_verifier) = m.code_challenge]_vars

\* C5: a request of the right client, with a redirect_uri and no
\* code_verifier, for a code whose flow sent no code_challenge passes the
\* PKCE block and goes on to its token response.
C5_NoChallengeNeedsNoVerifier ==
    [][\A r \in Slots :
        LET m == tokens[reqs[r].code].data
        IN  /\ ReadsMapping(r)
            /\ m.client_id = reqs[r].client_id
            /\ m.code_challenge = << >>
            /\ reqs[r].code_verifier = << >>
            => Passes(reqs'[r])]_vars

\* the request presents a code stored for a client other than the one it names
OtherClientsCode(r) ==
    /\ reqs[r].grant_type = "authorization_code"
    /\ reqs[r].owner /= 0
    /\ reqs[r].client_id /= 0
    /\ reqs[r].client_id /= reqs[r].owner

\* C6 as stated: a request whose client_id differs from the one stored with
\* its code is answered 400 invalid_grant whatever its other parameters (a
\* request the store failed on aside).
C6_MismatchAlwaysInvalidGrant ==
    \A r \in Slots :
        OtherClientsCode(r) /\ reqs[r].pc = "done" /\ ~StoreFailed(r)
            => reqs[r].status = 400 /\ reqs[r].error = "invalid_grant"

\* C6 as amended: a request whose client_id differs from the one stored with
\* its code never gets a token: with a redirect_uri it is answered 400
\* invalid_grant (500 server_error if the store call raises), without one
\* 400 invalid_request.
C6_MismatchNeverGetsToken ==
    \A r \in Slots :
        OtherClientsCode(r)
            => /\ ~Passes(reqs[r])
               /\ reqs[r].pc = "done" =>
                    /\ reqs[r].status /= 200
                    /\ \/ backend = "dynamo" /\ StoreFailed(r)
                       \/ reqs[r].status = 400 /\ reqs[r].error =
                             IF reqs[r].complete THEN "invalid_grant"
                                                 ELSE "invalid_request"

\* C6 witness: a complete request naming another client than the code's has
\* been told so
C6_Witness ==
    \E r \in Slots :
        /\ OtherClientsCode(r) /\ reqs[r].pc = "done" /\ reqs[r].complete
        /\ reqs[r].status = 400 /\ reqs[r].error = "invalid_grant"
        /\ reqs[r].error_description = "Authorization code was issued to another client"

-----------------------------------------------------------------------------
(* Claims about expiry in the token store *)

GetOps == {"get_session", "get_token_mapping", "get_refresh_token"}

\* the map a get call reads, and the time-to-live its entries are written with
TableOf(op) ==
    CASE op = "get_session" -> sessions
      [] op = "get_token_mapping" -> tokens
      [] OTHER -> refresh_tokens

TTLOf(op) ==
    CASE op = "get_session" -> SessionTTL
      [] op = "get_token_mapping" -> CodeTTL
      [] OTHER -> RefreshTTL

\* this step is a call of get operation op for a key the map holds
GetsPresent(op) ==
    /\ lastGet' /= lastGet
    /\ lastGet'.op = op
    /\ Has(TableOf(op), lastGet'.key)

\* C7 as stated: on the in-memory store, a get of an entry written TTL
\* seconds ago or more (24 h / 10 min / 30 days) answers not-found and
\* removes the entry from the map.
C7_UnreadableOnceTtlElapsed ==
    [][\A op \in GetOps :
        /\ backend = "local"
        /\ GetsPresent(op)
        /\ now - TableOf(op)[lastGet'.key].created_at >= TTLOf(op)
        => /\ ~lastGet'.found
           /\ ~Has(TableOf(op)', lastGet'.key)]_vars

\* C7 as amended: on the in-memory store, a get of an entry written more
\* than TTL seconds ago (by the store's whole-second clock) answers not-found
\* and removes the entry from the map; up to and including the TTL-th second
\* the get still returns the stored data and keeps the entry.
C7_UnreadableAfterTtlElapsed ==
    [][\A op \in GetOps :
        LET entry == TableOf(op)[lastGet'.key]
        IN  backend = "local" /\ GetsPresent(op)
            => IF now - entry.created_at > TTLOf(op)
               THEN /\ ~lastGet'.found
                    /\ ~Has(TableOf(op)', lastGet'.key)
               ELSE /\ lastGet'.found
                    /\ lastGet'.data = entry.data
                    /\ TableOf(op)' = TableOf(op)]_vars

\* C7 witness: on the in-memory store a get found an entry past its
\* time-to-live, answered not-found, and the entry is gone
C7_Witness ==
    /\ backend = "local"
    /\ lastGet.op \in GetOps
    /\ lastGet.present /\ ~lastGet.found
    /\ ~Has(TableOf(lastGet.op), lastGet.key)

\* C8: on either backend, a get never returns an entry whose stored
\* expiration is in the past.
C8_ExpiredNeverReturned ==
    [][\A op \in GetOps :
        /\ GetsPresent(op)
        /\ TableOf(op)[lastGet'.key].expiration < now
        => ~lastGet'.found]_vars

-----------------------------------------------------------------------------
(* Claims about token validation *)

\* the validated token is an MCP token bound to a Cognito token
ValidatedBound ==
    /\ vres.op = "validate_token"
    /\ IsMcpKid(vres.token.kid)
    /\ "cognito_token" \in DOMAIN vres.token.claims

\* C9: validate_token reports a broker token that embeds a Cognito token
\* valid only if the broker token is signed HS256 with the broker secret,
\* is for audience mcp-server and is unexpired, and the embedded token is a
\* Cognito access token of the app client with a key of the pool's JWKS,
\* signed RS256 by the pool, from the pool's issuer and unexpired; so an
\* embedded token expired at its issuer makes the broker token invalid
\* whatever its own exp.
C9_ValidOnlyIfBothValidate ==
    ValidatedBound /\ vres.valid
        => LET token == vres.token
               ct == vres.token.claims.cognito_token
           IN  /\ token.alg = "HS256"
               /\ token.key = "JWT_SECRET_KEY"
               /\ token.claims.aud = "mcp-server"
               /\ token.claims.exp > vres.at
               /\ vres.jwks = "keys"
               /\ ct.kid = KidPool
               /\ ct.alg = "RS256"
               /\ ct.key = "pool-key"
               /\ ct.claims.exp > vres.at
               /\ ct.claims.iss = "pool-issuer"
               /\ ct.claims.token_use = "access"
               /\ ct.claims.client_id = "app-client"

\* C9 witness: an issued broker token whose own exp has not passed is
\* reported invalid because the Cognito token it embeds has expired
C9_Witness ==
    /\ ValidatedBound
    /\ ~vres.valid
    /\ vres.jwks = "keys"
    /\ \E exp \in ExpValues, cexp \in ExpValues :
          /\ vres.token = IssuedToken(exp, GoodCognitoToken(cexp))
          /\ cexp < vres.at
          /\ vres.at < exp

-----------------------------------------------------------------------------
(* Claims about client registration *)

\* C10: the client_id and the client_secret of every registration response
\* differ from those of every earlier response, and the registry holds the
\* client under the client_id the response returned.
C10_RegistrationsUniqueAndRetrievable ==
    \A i \in 1..Len(regLog) :
        /\ \A j \in 1..(i - 1) :
              /\ regLog[j].client_id /= regLog[i].client_id
              /\ regLog[j].client_secret /= regLog[i].client_secret
        /\ ClientFound(regLog[i].client_id)
        /\ ClientData(regLog[i].client_id).client_id = regLog[i].client_id
        /\ ClientData(regLog[i].client_id).client_name = regLog[i].client_name
        /\ ClientData(regLog[i].client_id).redirect_uris = regLog[i].redirect_uris

\* a redirect URI that uses plain HTTP on a host other than localhost and
\* 127.0.0.1
PlainHttpOffLoopback(uri) ==
    /\ Head(uri) = "http://"
    /\ HostOf(uri) \notin { << "localhost" >>, << "127.0.0.1" >> }

\* C11: no registration that holds a plain HTTP redirect URI of a host other
\* than localhost / 127.0.0.1 succeeds or leaves a client record.
C11_PlainHttpOffLoopbackRefused ==
    /\ \A i \in 1..Len(regLog) :
          \A k \in 1..Len(regLog[i].redirect_uris) :
              ~PlainHttpOffLoopback(regLog[i].redirect_uris[k])
    /\ \A client_id \in DOMAIN clients :
          \A k \in 1..Len(clients[client_id].data.redirect_uris) :
              ~PlainHttpOffLoopback(clients[client_id].data.redirect_uris[k])

\* C12: every registration that succeeds, and every client record, has a
\* client_name and a non-empty redirect_uris.
C12_RequiredFieldsNonEmpty ==
    /\ \A i \in 1..Len(regLog) :
          /\ "client_name" \in DOMAIN regLog[i]
          /\ "redirect_uris" \in DOMAIN regLog[i]
          /\ regLog[i].redirect_uris /= << >>
    /\ \A client_id \in DOMAIN clients :
          /\ "client_name" \in DOMAIN clients[client_id].data
          /\ "redirect_uris" \in DOMAIN clients[client_id].data
          /\ clients[client_id].data.redirect_uris /= << >>

-----------------------------------------------------------------------------
(* Claims about /authorize and /callback *)

\* a step in which /authorize answered a request
AuthorizeStep == resp'.op = "authorize" /\ (resp.op /= "authorize" \/ resp' /= resp)

\* the request names a registered client, one of that client's registered
\* redirect URIs and response_type=code
ValidAuthorizeRequest(q) ==
    /\ q.client_id \in DOMAIN clients
    /\ InList(q.redirect_uri, clients[q.client_id].data.redirect_uris)
    /\ q.response_type = "code"

\* C13: a valid /authorize request is answered 302 to the upstream
\* authorization endpoint with a state that is the id of no session so far,
\* and the step stores, under exactly that id and no other, a session that
\* holds the request's client_id, redirect_uri, state, code_challenge,
\* code_challenge_method (S256 when the request names none) and scope.  (With
\* the DynamoDB store a call may raise: the answer is then 500 and no session
\* is stored.)
C13_ValidAuthorizeStoresSessionAndRedirects ==
    [][ AuthorizeStep /\ ValidAuthorizeRequest(resp'.authorize_request) =>
          LET q == resp'.authorize_request
          IN  \/ /\ backend = "dynamo"
                 /\ resp'.status = 500
                 /\ sessions' = sessions
              \/ /\ resp'.status = 302
                 /\ resp'.location = "cognito"
                 /\ resp'.upstream_state \notin DOMAIN sessions
                 /\ DOMAIN sessions' = DOMAIN sessions \cup {resp'.upstream_state}
                 /\ \A id \in DOMAIN sessions : sessions'[id] = sessions[id]
                 /\ LET session == sessions'[resp'.upstream_state].data
                    IN  /\ session.client_id = q.client_id
                        /\ session.redirect_uri = q.redirect_uri
                        /\ session.state = q.state
                        /\ session.code_challenge = q.code_challenge
                        /\ session.code_challenge_method =
                              (IF q.code_challenge_method = "" THEN "S256"
                               ELSE q.code_challenge_method)
                        /\ session.scope = q.scope ]_vars

\* C13 witness: a valid request with a code_challenge has been answered 302
\* and its session is in the store
C13_Witness ==
    /\ resp.op = "authorize" /\ resp.status = 302
    /\ ValidAuthorizeRequest(resp.authorize_request)
    /\ resp.authorize_request.code_challenge /= << >>
    /\ resp.upstream_state \in DOMAIN sessions
    /\ sessions[resp.upstream_state].data.code_challenge =
          resp.authorize_request.code_challenge

\* the step stores nothing and issues no redirect upstream
AuthorizeRefused ==
    /\ resp'.location = ""
    /\ UNCHANGED << clients, sessions, tokens, refresh_tokens >>

\* C14: /authorize answers invalid_request when client_id or redirect_uri is
\* missing or response_type is not code; otherwise invalid_client when no
\* client has the client_id; otherwise invalid_redirect_uri when the
\* redirect_uri is not one the client registered; each time it stores no
\* session and issues no redirect upstream.  (With the DynamoDB store the
\* client lookup may raise: the answer is then 500, again with nothing stored
\* and no redirect.)
C14_AuthorizeRejectsInOrderWithoutSideEffects ==
    [][ AuthorizeStep =>
          LET q == resp'.authorize_request
              raised == backend = "dynamo" /\ resp'.status = 500
          IN  IF q.client_id = 0 \/ q.redirect_uri = << >>
                 \/ q.response_type /= "code"
              THEN resp'.error = "invalid_request" /\ AuthorizeRefused
              ELSE IF q.client_id \notin DOMAIN clients
              THEN /\ raised \/ resp'.error = "invalid_client"
                   /\ AuthorizeRefused
              ELSE IF ~InList(q.redirect_uri,
                              clients[q.client_id].data.redirect_uris)
              THEN /\ raised \/ resp'.error = "invalid_redirect_uri"
                   /\ AuthorizeRefused
              ELSE TRUE ]_vars

\* C14 witness: with a client registered, a request that names no registered
\* client and a redirect_uri no client registered has been answered
\* invalid_client
C14_Witness ==
    /\ resp.op = "authorize" /\ resp.error = "invalid_client"
    /\ resp.authorize_request.client_id \notin DOMAIN clients
    /\ resp.authorize_request.redirect_uri = UriOther
    /\ clients /= EmptyMap

\* a step in which /callback answered a request
CallbackStep == resp'.op = "callback" /\ (resp.op /= "callback" \/ resp' /= resp)

\* the request carries a code and a state and no error, and get_session
\* returns a session for the state
ResolvesSession(q) ==
    q.error = "" /\ q.code /= "" /\ q.state /= 0 /\ GetFound(sessions, q.state)

\* C15: a /callback with a code and a state that resolves to a stored session
\* makes the upstream exchange; when that succeeds, the step stores one new
\* code mapping, under a code no mapping had, with the session's client_id,
\* scope, code_challenge and code_challenge_method, and answers 302 to the
\* session's redirect_uri with code = that code and with state = the session's
\* state exactly when the session has one.  (With the DynamoDB store a call
\* may raise: the answer is then 500 and no mapping is stored.)
C15_CallbackMintsCodeAndRedirects ==
    [][ CallbackStep /\ ResolvesSession(resp'.callback_request) =>
          LET q == resp'.callback_request
              session == sessions[q.state].data
              code == resp'.redirect_params.code
          IN  \/ /\ backend = "dynamo"
                 /\ resp'.status = 500
                 /\ tokens' = tokens
              \/ /\ resp'.upstream = "failed"
              \/ /\ resp'.upstream = "ok"
                 /\ resp'.status = 302
                 /\ code \notin DOMAIN tokens
                 /\ DOMAIN tokens' = DOMAIN tokens \cup {code}
                 /\ \A c \in DOMAIN tokens : tokens'[c] = tokens[c]
                 /\ tokens'[code].data.client_id = session.client_id
                 /\ tokens'[code].data.scope = session.scope
                 /\ tokens'[code].data.code_challenge = session.code_challenge
                 /\ tokens'[code].data.code_challenge_method =
                       session.code_challenge_method
                 /\ resp'.redirect_url = session.redirect_uri
                 /\ ("state" \in DOMAIN resp'.redirect_params) =
                       (session.state /= "")
                 /\ session.state /= "" =>
                       resp'.redirect_params.state = session.state ]_vars

\* C15 witness: a callback for a session that has a state and a
\* code_challenge has been answered 302 and the mapping is in the store
C15_Witness ==
    /\ resp.op = "callback" /\ resp.status = 302
    /\ resp.redirect_params.code \in DOMAIN tokens
    /\ resp.callback_request.state \in DOMAIN sessions
    /\ "state" \in DOMAIN resp.redirect_params
    /\ resp.redirect_params.state =
          sessions[resp.callback_request.state].data.state
    /\ tokens[resp.redirect_params.code].data.code_challenge /= << >>

\* the step makes no upstream token exchange and stores no code mapping
CallbackEndsBeforeUpstream ==
    /\ resp'.upstream = "none"
    /\ tokens' = tokens

\* a session is stored under the state and its expiration has not passed
UnexpiredSession(state) ==
    state \in DOMAIN sessions /\ sessions[state].expiration >= now

\* C16: /callback answers 400 with the error of an error parameter, whatever
\* else the request holds; otherwise invalid_request when code or state is
\* missing; otherwise invalid_state when no unexpired session is stored under
\* the state; each time without an upstream token exchange and without
\* storing a code mapping (a request on which the store call raised aside).
C16_CallbackRefusesUnresolvedFlow ==
    [][ CallbackStep =>
          LET q == resp'.callback_request
              raised == backend = "dynamo" /\ resp'.status = 500
                        /\ resp'.upstream = "none"
          IN  IF q.error /= ""
              THEN /\ resp'.status = 400 /\ resp'.error = q.error
                   /\ CallbackEndsBeforeUpstream
              ELSE IF q.code = "" \/ q.state = 0
              THEN /\ resp'.status = 400 /\ resp'.error = "invalid_request"
                   /\ CallbackEndsBeforeUpstream
              ELSE IF ~UnexpiredSession(q.state)
              THEN /\ raised \/ (resp'.status = 400 /\ resp'.error = "invalid_state")
                   /\ CallbackEndsBeforeUpstream
              ELSE TRUE ]_vars

-----------------------------------------------------------------------------
(* Claims about the token endpoint: the whole flow, the dispatch on          *)
(* grant_type and the refresh_token grant                                   *)

\* request r, which carries code, client_id and redirect_uri, looks its code
\* up: the code was minted by a /callback for the request's client and for an
\* S256 challenge that the request's verifier reproduces, it has not been
\* redeemed and its 10 minutes have not passed
RedeemsInTime(r) ==
    /\ reqs[r].pc = "get_token_mapping"
    /\ reqs'[r].pc /= "get_token_mapping"
    /\ reqs[r].code \in DOMAIN tokens
    /\ now <= tokens[reqs[r].code].created_at + CodeTTL
    /\ LET token_mapping == tokens[reqs[r].code].data
       IN  /\ token_mapping.client_id = reqs[r].client_id
           /\ token_mapping.code_challenge_method = "S256"
           /\ token_mapping.code_challenge /= << >>
           /\ token_mapping.code_challenge =
                 S256Challenge(reqs[r].code_verifier)

\* request r answers after it passed the checks of the grant
AnswersAfterChecks(r) == Passes(reqs[r]) /\ reqs'[r].pc = "done"

\* the answer token()'s except clause gives request r in this step when a
\* call of the DynamoDB store raised
StoreFailsNow(r) ==
    /\ backend = "dynamo"
    /\ reqs'[r].status = 500
    /\ reqs'[r].error_description = "store call failed"

\* C18: after register, /authorize with an S256 challenge and a successful
\* /callback, an authorization_code request that presents the minted code
\* within its 10 minutes, with the same client_id, a redirect_uri and a
\* verifier that reproduces the challenge, passes every check of the grant,
\* and its answer is 200 with access_token, token_type "Bearer", expires_in
\* and scope.  (With the DynamoDB store a call may raise: the answer is then
\* 500 server_error.)
C18_FlowEndsInTokenResponse ==
    [][ \A r \in Slots :
          /\ RedeemsInTime(r) => Passes(reqs'[r]) \/ StoreFailsNow(r)
          /\ AnswersAfterChecks(r) =>
                \/ StoreFailsNow(r)
                \/ /\ reqs'[r].status = 200
                   /\ {"access_token", "token_type", "expires_in", "scope"}
                         \subseteq DOMAIN reqs'[r].response
                   /\ reqs'[r].response.token_type = "Bearer"
                   /\ reqs'[r].response.scope = reqs[r].mapping.scope ]_vars

\* C18 witness: a request for a code minted for an S256 challenge has been
\* answered 200 with a Bearer token response for scope openid
C18_Witness ==
    \E r \in Slots :
        /\ AuthCodeDone(r) /\ reqs[r].status = 200
        /\ reqs[r].owner = reqs[r].client_id
        /\ "access_token" \in DOMAIN reqs[r].response
        /\ reqs[r].response.token_type = "Bearer"
        /\ reqs[r].response.scope = "openid"
        /\ reqs[r].response.access_token.sub = reqs[r].client_id

\* request r takes a step and its grant_type is neither authorization_code
\* nor refresh_token ("": none)
OtherGrantStep(r) ==
    /\ reqs'[r] /= reqs[r]
    /\ reqs'[r].grant_type \notin { "authorization_code", "refresh_token" }

\* C19: a /token request whose grant_type is neither authorization_code nor
\* refresh_token, or is absent, changes no client, session, code mapping or
\* refresh mapping, whatever code or refresh token it carries, and is
\* answered 400 unsupported_grant_type.  (With the DynamoDB store the client
\* lookup that precedes the dispatch may raise: the answer is then 500
\* server_error.)
C19_OtherGrantTypesUnsupported ==
    [][ \A r \in Slots :
          OtherGrantStep(r) =>
             /\ UNCHANGED << clients, sessions, tokens, refresh_tokens >>
             /\ reqs'[r].pc \in { "get_client", "done" }
             /\ reqs'[r].pc = "done" =>
                   \/ StoreFailsNow(r)
                   \/ /\ reqs'[r].status = 400
                      /\ reqs'[r].error = "unsupported_grant_type" ]_vars

\* C19 witness: a request without grant_type that carries a code and a refresh
\* token in the store has been answered 400 unsupported_grant_type and both
\* are still in the store
C19_Witness ==
    \E r \in Slots :
        /\ reqs[r].pc = "done" /\ reqs[r].grant_type = ""
        /\ reqs[r].status = 400 /\ reqs[r].error = "unsupported_grant_type"
        /\ reqs[r].code \in DOMAIN tokens
        /\ reqs[r].form_refresh_token \in DOMAIN refresh_tokens

\* request r gets the answer of get_refresh_token
RefreshLookup(r) ==
    /\ reqs[r].pc = "get_refresh_token"
    /\ reqs'[r].pc /= "get_refresh_token"
    /\ ~StoreFailsNow(r)

\* a refresh mapping is stored under the token and its expiration has not
\* passed
UnexpiredRefresh(refresh_token) ==
    /\ refresh_token \in DOMAIN refresh_tokens
    /\ refresh_tokens[refresh_token].expiration >= now

\* request r is answered 400 invalid_grant in this step
InvalidGrantNow(r) ==
    /\ reqs'[r].pc = "done"
    /\ reqs'[r].status = 400
    /\ reqs'[r].error = "invalid_grant"

\* every unexpired refresh mapping is as it was
UnexpiredRefreshKept ==
    \A t \in DOMAIN refresh_tokens :
        UnexpiredRefresh(t) =>
            t \in DOMAIN refresh_tokens' /\ refresh_tokens'[t] = refresh_tokens[t]

\* C20: the refresh_token grant answers invalid_grant, and no token, when no
\* unexpired mapping is stored under the presented refresh token, when the
\* mapping's client_id differs from the request's (and then without an
\* upstream call), and when the upstream refresh call fails; each time the
\* stored refresh mappings are left as they were (a request on which the
\* store call raised aside).
C20_RefreshRefusedWithInvalidGrant ==
    [][ \A r \in Slots :
          LET refresh_token == reqs[r].form_refresh_token
          IN  /\ RefreshLookup(r) /\ ~UnexpiredRefresh(refresh_token) =>
                    InvalidGrantNow(r) /\ UnexpiredRefreshKept
              /\ /\ RefreshLookup(r)
                 /\ UnexpiredRefresh(refresh_token)
                 /\ refresh_tokens[refresh_token].data.client_id
                       /= reqs[r].client_id
                 => /\ InvalidGrantNow(r)
                    /\ reqs'[r].upstream = "none"
                    /\ refresh_tokens' = refresh_tokens
              /\ /\ reqs[r].pc = "refresh_upstream"
                 /\ reqs'[r].upstream = "made"
                 /\ \/ ~reqs'[r].upstream_outcome.ok
                    \/ reqs'[r].upstream_outcome.access_token = ""
                 => /\ InvalidGrantNow(r)
                    /\ refresh_tokens' = refresh_tokens ]_vars

\* the upstream exchange of the /callback that minted the mapping issued a
\* refresh token (tokens.get('refresh_token') is None, here "", otherwise)
UpstreamIssuedRefresh(token_mapping) == token_mapping.cognito_refresh_token /= ""

\* C21: a successful authorization_code redemption stores a refresh mapping
\* under a new broker refresh token, and returns refresh_token in the
\* response, if and only if the upstream provider issued a refresh token in
\* the /callback exchange; when it issued none, no refresh mapping is
\* created and the response has no refresh_token.
C21_RefreshTokenIffUpstreamIssuedOne ==
    [][ \A r \in Slots :
          /\ /\ reqs[r].pc = "store_refresh_token"
             /\ DOMAIN refresh_tokens' /= DOMAIN refresh_tokens
             => UpstreamIssuedRefresh(reqs[r].mapping)
          /\ /\ reqs[r].pc = "delete_token_mapping"
             /\ reqs'[r].pc = "done" /\ reqs'[r].status = 200
             => /\ "refresh_token" \in DOMAIN reqs'[r].response
                   <=> UpstreamIssuedRefresh(reqs[r].mapping)
                /\ reqs[r].refresh_token \in DOMAIN refresh_tokens
                   <=> UpstreamIssuedRefresh(reqs[r].mapping) ]_vars

\* request r's refresh_token grant is answered 200 in this step, after the
\* upstream call (in-memory store) or after update_refresh_token (DynamoDB)
RefreshSucceeds(r) ==
    /\ reqs[r].pc \in {"refresh_upstream", "update_refresh_token"}
    /\ reqs'[r].pc = "done"
    /\ reqs'[r].status = 200

\* C22: a successful refresh in which the upstream issues a new refresh token
\* leaves, under the same broker refresh token, a mapping whose
\* cognito_refresh_token is the new one and whose expiration is 30 days from
\* the update, with the client_id and scope the request read, and leaves
\* every other mapping alone; a successful refresh in which the upstream
\* issues none leaves every mapping and its expiration unchanged.
C22_SlidingRefreshTtl ==
    [][ \A r \in Slots :
          RefreshSucceeds(r) =>
             LET refresh_token == reqs[r].form_refresh_token
                 up == reqs'[r].upstream_outcome
             IN  IF up.refresh_token /= ""
                 THEN /\ refresh_token \in DOMAIN refresh_tokens'
                      /\ LET entry == refresh_tokens'[refresh_token]
                         IN  /\ entry.data.cognito_refresh_token
                                   = up.refresh_token
                             /\ entry.expiration = now + RefreshTTL
                             /\ entry.data.client_id = reqs[r].client_id
                             /\ entry.data.scope = reqs[r].mapping.scope
                             /\ refresh_token \in DOMAIN refresh_tokens =>
                                   /\ entry.data.client_id =
                                         refresh_tokens[refresh_token].data.client_id
                                   /\ entry.data.scope =
                                         refresh_tokens[refresh_token].data.scope
                      /\ \A t \in DOMAIN refresh_tokens' \ {refresh_token} :
                            /\ t \in DOMAIN refresh_tokens
                            /\ refresh_tokens'[t] = refresh_tokens[t]
                 ELSE refresh_tokens' = refresh_tokens ]_vars

\* C22 witness: a mapping stored at second 0 has been refreshed later with a
\* new upstream refresh token: it holds the new token and expires 30 days
\* after the refresh, and the request was answered 200
C22_Witness ==
    \E r \in Slots :
        /\ reqs[r].pc = "done" /\ reqs[r].grant_type = "refresh_token"
        /\ reqs[r].status = 200
        /\ reqs[r].upstream_outcome.refresh_token = "cognito-rt-2"
        /\ now > 0
        /\ reqs[r].form_refresh_token \in DOMAIN refresh_tokens
        /\ LET entry == refresh_tokens[reqs[r].form_refresh_token]
           IN  /\ entry.data.cognito_refresh_token = "cognito-rt-2"
               /\ entry.expiration = now + RefreshTTL
               /\ entry.data.scope = "openid"

\* C22 witness: a refresh in which the upstream issued no refresh token has
\* been answered 200 and the mapping still holds the first upstream refresh
\* token and the expiration it was stored with
C22_WitnessNoNewToken ==
    \E r \in Slots :
        /\ reqs[r].pc = "done" /\ reqs[r].grant_type = "refresh_token"
        /\ reqs[r].status = 200
        /\ reqs[r].upstream_outcome.refresh_token = ""
        /\ now > 0
        /\ reqs[r].form_refresh_token \in DOMAIN refresh_tokens
        /\ LET entry == refresh_tokens[reqs[r].form_refresh_token]
           IN  /\ entry.data.cognito_refresh_token = "cognito-rt"
               /\ entry.expiration = RefreshTTL

-----------------------------------------------------------------------------
(* Claims about the bearer-token middleware and the validator *)

\* the middleware takes a request
DispatchStep == vres'.op = "dispatch" /\ vres' /= vres

\* the text of the header begins with 'Bearer '
BeginsWithBearer(auth_header) ==
    /\ auth_header.present
    /\ auth_header.scheme /= << >>
    /\ auth_header.scheme[1] = "Bearer "

\* C23: for a request to a path that is not exempt, the handler is invoked
\* only if the Authorization header begins with 'Bearer ' and validate_token
\* reported the token valid, and the claims it returned are then attached to
\* the request; otherwise the answer is 401 invalid_token and the handler is
\* not invoked.
C23_HandlerOnlyBehindValidBearerToken ==
    [][ DispatchStep /\ ~ExemptPath(vres'.server, vres'.path) =>
          LET auth_header == vres'.auth_header
              token == BearerToken(auth_header)
          IN  IF vres'.called_next
              THEN /\ BeginsWithBearer(auth_header)
                   /\ vres'.validated
                   /\ ValidateResult(token, vres'.jwks).valid
                   /\ vres'.user = ValidateResult(token, vres'.jwks).claims
                   /\ vres'.user = token.claims
              ELSE /\ vres'.status = 401
                   /\ vres'.error = "invalid_token"
                   /\ ~BeginsWithBearer(auth_header)
                        \/ ~ValidateResult(token, vres'.jwks).valid ]_vars

\* C23 witness: on a protected path a request whose bearer token is a
\* Cognito token signed with another key has been answered 401 invalid_token
\* without the handler
C23_Witness ==
    /\ vres.op = "dispatch"
    /\ vres.path = << "/sse" >>
    /\ ~vres.called_next
    /\ vres.status = 401 /\ vres.error = "invalid_token"
    /\ vres.validated
    /\ vres.token = [GoodCognitoToken(DefaultExpiresIn) EXCEPT !.key = "other-key"]

\* C23 witness: a request with a valid bearer token has reached the handler
\* of a protected path with the token's claims attached
C23_WitnessHandlerInvoked ==
    /\ vres.op = "dispatch"
    /\ vres.path = << "/sse" >>
    /\ vres.called_next
    /\ vres.user = GoodIssuedToken.claims

\* the last request was refused because its token failed validation
FailedValidation(v) == v.op = "dispatch" /\ v.validated /\ ~v.valid

\* what the caller and the middleware get to see of a validation
Answer(v) ==
    << v.valid, v.claims, v.called_next, v.status, v.error,
       v.error_description, v.user >>

\* C24: any two presented tokens that both fail validation, for whatever
\* reasons, get the same result of validate_token (False, empty claims) and
\* the same 401 invalid_token answer of the middleware.
C24_ValidationFailuresAlike ==
    [][ /\ FailedValidation(vres') =>
             /\ ~vres'.valid /\ vres'.claims = EmptyMap
             /\ vres'.status = 401 /\ vres'.error = "invalid_token"
             /\ ~vres'.called_next
        /\ FailedValidation(vres) /\ FailedValidation(vres') =>
             Answer(vres') = Answer(vres) ]_vars

\* C24 witness: a broker token signed with the secret has been refused on a
\* protected path because it had expired, with empty claims and the answer
\* every failed validation gets
C24_Witness ==
    /\ FailedValidation(vres)
    /\ vres.token \in UnboundTokens
    /\ vres.token.key = "JWT_SECRET_KEY"
    /\ vres.token.claims.exp <= vres.at
    /\ vres.status = 401
    /\ vres.error_description = "Token validation failed"
    /\ vres.claims = EmptyMap

-----------------------------------------------------------------------------
(* Claims about the choice of the store and about stored numbers *)

\* a table name is configured
TableConfigured == vres.table_name.set /\ vres.table_name.value /= ""

\* a get call is answered
GetStep == lastGet'.op \in GetOps /\ lastGet' /= lastGet

\* C25: get_token_store never raises; it returns the DynamoDB store only
\* when a table name is configured and DynamoDBTokenStore() returns, and the
\* in-memory store in every other case (no table name, or an error of the
\* initialisation); the store chosen at startup is the one every later call
\* is made on: it never changes, and only the in-memory store reports an
\* entry it holds as not found, namely when its expiration has passed.
C25_StoreSelectionFailsOpen ==
    /\ [](vres.op = "get_token_store" =>
            /\ vres.store \in {"local", "dynamo"}
            /\ vres.store = "dynamo" <=> TableConfigured /\ vres.init = "ok"
            /\ backend = vres.store)
    /\ [][ /\ backend' = backend
           /\ GetStep =>
                (lastGet'.found <=>
                   /\ lastGet'.present
                   /\ ~ /\ vres.store = "local"
                        /\ TableOf(lastGet'.op)[lastGet'.key].expiration < now)
       ]_vars

\* C25 witness: a table name was configured, DynamoDBTokenStore() raised, and
\* a later get_session is answered by the in-memory store, which reports an
\* expired session it holds as not found
C25_Witness ==
    /\ vres.op = "get_token_store"
    /\ TableConfigured /\ vres.init = "raises"
    /\ backend = "local"
    /\ lastGet.op = "get_session"
    /\ lastGet.present /\ ~lastGet.found

\* C25 witness: a table name was configured and DynamoDBTokenStore()
\* returned: a later get_session is answered by the DynamoDB store, which
\* returns a session whose expiration has passed
C25_WitnessDurable ==
    /\ vres.op = "get_token_store"
    /\ TableConfigured /\ vres.init = "ok"
    /\ backend = "dynamo"
    /\ lastGet.op = "get_session"
    /\ lastGet.found /\ lastGet.at > SessionTTL

\* C26: on both stores a get after a store returns every numeric field of
\* the record with the value and the numeric kind it was stored with (an
\* integer expires_in comes back an integer, a float created_at a float).
C26_NumbersRoundTripExactly ==
    lastGet.op \in GetOps /\ lastGet.found =>
        \E data \in StoreDatas :
            \A f \in NumericFields \cap DOMAIN data :
                /\ f \in DOMAIN lastGet.data
                /\ lastGet.data[f].v = data[f].v
                /\ lastGet.data[f].k = data[f].k

-----------------------------------------------------------------------------
(* Claims about what /callback and /token leave behind *)

\* the last /callback resolved a session, minted a code and redirected, and
\* this step is a /callback that presents the same state with a code
SecondCallbackForSession ==
    /\ resp.op = "callback" /\ resp.status = 302
    /\ CallbackStep
    /\ resp'.callback_request.state = resp.callback_request.state
    /\ resp'.callback_request.code /= ""
    /\ resp'.callback_request.error = ""

\* C27: a session is consumed by the /callback that resolves it: a later
\* /callback that presents the same state is answered 400 invalid_state and
\* no second code is minted for the session.  (Set aside: a request on which
\* a store call raised, and a session whose 24 hours have passed, which is
\* refused or not for another reason.)
C27_SessionConsumedOnce ==
    [][ /\ SecondCallbackForSession
        /\ UnexpiredSession(resp.callback_request.state)
        => \/ /\ resp'.status = 400
              /\ resp'.error = "invalid_state"
              /\ tokens' = tokens
           \/ /\ backend = "dynamo"
              /\ resp'.status = 500
              /\ tokens' = tokens ]_vars

\* request r of the authorization_code grant leaves step 1 of the grant
LeavesParameterCheck(r) ==
    /\ reqs[r].pc = "get_client"
    /\ reqs[r].grant_type = "authorization_code"
    /\ reqs'[r].pc /= "get_client"

\* the redirect_uri is neither the one a session recorded at /authorize nor
\* one a client registered
UnknownRedirectUri(uri) ==
    /\ \A state \in DOMAIN sessions : sessions[state].data.redirect_uri /= uri
    /\ \A c \in DOMAIN clients : ~InList(uri, clients[c].data.redirect_uris)

\* C28: of the redirect_uri an authorization_code request presents, only
\* that it is not empty is required.  A request with code and client_id goes
\* on to look its code up exactly if its redirect_uri is not empty (and is
\* answered 400 invalid_request otherwise); a request that looks up an
\* unredeemed, unexpired code of its own client with the verifier of the
\* challenge passes every check and is answered 200, whatever its
\* redirect_uri is: the one of the session, one the client did not register,
\* a plain HTTP one.  (With the DynamoDB store a call may raise: the answer
\* is then 500 server_error.)
C28_RedirectUriOnlyNonEmpty ==
    [][ \A r \in Slots :
          /\ LeavesParameterCheck(r) /\ reqs[r].code /= 0
               /\ reqs[r].client_id /= 0 =>
                \/ StoreFailsNow(r)
                \/ IF reqs[r].redirect_uri /= << >>
                   THEN reqs'[r].pc = "get_token_mapping"
                   ELSE /\ reqs'[r].status = 400
                        /\ reqs'[r].error = "invalid_request"
          /\ RedeemsInTime(r) =>
                /\ reqs[r].redirect_uri /= << >>
                /\ Passes(reqs'[r]) \/ StoreFailsNow(r)
          /\ AnswersAfterChecks(r) =>
                StoreFailsNow(r) \/ reqs'[r].status = 200 ]_vars

\* C28 witness: a request that presented a redirect_uri no session recorded
\* and no client registered has been answered 200 with an access token
C28_Witness ==
    \E r \in Slots :
        /\ AuthCodeDone(r) /\ reqs[r].status = 200
        /\ reqs[r].redirect_uri = UriOther
        /\ UnknownRedirectUri(reqs[r].redirect_uri)
        /\ sessions /= EmptyMap
        /\ "access_token" \in DOMAIN reqs[r].response

\* C28 witness: so has a request that presented a plain HTTP redirect_uri
C28_WitnessPlainHttp ==
    \E r \in Slots :
        /\ AuthCodeDone(r) /\ reqs[r].status = 200
        /\ reqs[r].redirect_uri = UriPlainHttp
        /\ UnknownRedirectUri(reqs[r].redirect_uri)

C29_WitnessDeleted ==
    \E r \in Slots :
        /\ AuthCodeDone(r) /\ reqs[r].status = 200
        /\ reqs[r].refresh_token \in DOMAIN refresh_tokens
        /\ reqs[r].code \notin DOMAIN tokens

\* the header of the token names a key of the server: its kid begins with
\* 'mcp-'
KidBeginsWithMcp(token) == token.kid /= << >> /\ Head(token.kid) = "mcp-"

\* the signature is the shared secret's, under HS256, the audience is
\* mcp-server and exp has not passed at the instant t
VerifiesWithSharedSecret(token, t) ==
    /\ token.alg = "HS256" /\ token.key = "JWT_SECRET_KEY"
    /\ "aud" \in DOMAIN token.claims /\ token.claims.aud = "mcp-server"
    /\ token.claims.exp > t

\* the token is an unexpired access token of the user pool for the app
\* client, signed under RS256 with the pool's key its kid names
VerifiesAsUpstreamToken(token, t) ==
    /\ token.kid = KidPool
    /\ token.alg = "RS256" /\ token.key = "pool-key"
    /\ token.claims.exp > t
    /\ "iss" \in DOMAIN token.claims /\ token.claims.iss = "pool-issuer"
    /\ "token_use" \in DOMAIN token.claims /\ token.claims.token_use = "access"
    /\ "client_id" \in DOMAIN token.claims
    /\ token.claims.client_id = "app-client"

\* C30: which validation a token gets depends on the kid of its unverified
\* header alone.  A token whose kid begins with 'mcp-' is accepted only if
\* it verifies with the shared secret (HS256, audience mcp-server, exp not
\* passed), whatever upstream key signed it, and is accepted if it does and
\* carries no cognito_token or a valid one; a token with another kid, or
\* with none, is accepted exactly if it is a valid upstream token (the JWKS
\* document fetched), whatever the shared secret signed, and its own claims
\* are returned.
C30_ValidatorChosenByKidAlone ==
    vres.op = "dispatch" /\ vres.validated /\ Parses(vres.token) =>
        LET token == vres.token
            t == vres.at
        IN  IF KidBeginsWithMcp(token)
            THEN /\ vres.valid => VerifiesWithSharedSecret(token, t)
                 /\ VerifiesWithSharedSecret(token, t)
                       /\ ( "cognito_token" \in DOMAIN token.claims =>
                               /\ vres.jwks = "keys"
                               /\ VerifiesAsUpstreamToken(
                                      token.claims.cognito_token, t) )
                       => vres.valid
            ELSE /\ vres.valid <=>
                       vres.jwks = "keys" /\ VerifiesAsUpstreamToken(token, t)
                 /\ vres.valid => vres.claims = token.claims

\* C30 witness: a token the pool's key signed, valid as an upstream token but
\* for its kid, mcp-1, has been refused
C30_Witness ==
    /\ vres.op = "dispatch" /\ vres.validated /\ ~vres.valid
    /\ vres.jwks = "keys"
    /\ vres.token.kid = KidMcp1
    /\ VerifiesAsUpstreamToken([vres.token EXCEPT !.kid = KidPool], vres.at)

\* C30 witness: a token the shared secret signed, HS256, for mcp-server and
\* unexpired, has been refused under the kid of the pool's key
C30_WitnessSharedSecretOtherKid ==
    /\ vres.op = "dispatch" /\ vres.validated /\ ~vres.valid
    /\ vres.jwks = "keys"
    /\ vres.token.kid = KidPool
    /\ VerifiesWithSharedSecret(vres.token, vres.at)

\* C30 witness: so has one whose header has no kid
C30_WitnessSharedSecretNoKid ==
    /\ vres.op = "dispatch" /\ vres.validated /\ ~vres.valid
    /\ vres.token.kid = KidAbsent
    /\ VerifiesWithSharedSecret(vres.token, vres.at)

\* C30 witness: a token whose kid begins with 'mcp-' has been accepted
C30_WitnessAcceptedMcp ==
    /\ vres.op = "dispatch" /\ vres.valid /\ KidBeginsWithMcp(vres.token)

\* C30 witness: a token with another kid has been accepted
C30_WitnessAcceptedUpstream ==
    /\ vres.op = "dispatch" /\ vres.valid /\ ~KidBeginsWithMcp(vres.token)

-----------------------------------------------------------------------------
(* Claims about the validation of upstream tokens, the client records and   *)
(* the two stores                                                           *)

\* validate_token has handed a token to validate_cognito_token as it came
RawUpstreamValidated ==
    /\ vres.op = "validate_token"
    /\ ~KidBeginsWithMcp(vres.token)

\* C31: a token validated as a raw upstream token is reported valid exactly
\* if the JWKS document was fetched and holds a key with the token's kid,
\* the token is signed RS256 with that key, its exp has not passed, its iss
\* is the pool's issuer, its token_use is 'access' and its client_id is the
\* app client's; the claims returned are then the token's, and the empty
\* claims otherwise.
C31_UpstreamTokenValidIffEveryCheckPasses ==
    RawUpstreamValidated =>
        LET token == vres.token
        IN  /\ vres.valid <=>
                 /\ vres.jwks = "keys"
                 /\ token.kid \in {KidPool}
                 /\ token.alg = "RS256"
                 /\ token.key = "pool-key"
                 /\ token.claims.exp > vres.at
                 /\ "iss" \in DOMAIN token.claims
                 /\ token.claims.iss = "pool-issuer"
                 /\ "token_use" \in DOMAIN token.claims
                 /\ token.claims.token_use = "access"
                 /\ "client_id" \in DOMAIN token.claims
                 /\ token.claims.client_id = "app-client"
            /\ vres.claims = IF vres.valid THEN token.claims ELSE EmptyMap

\* the upstream token presented differs from a good, unexpired one in the
\* claim or header field named only
DiffersOnlyIn(field) ==
    \E exp \in ExpValues :
        /\ exp > vres.at
        /\ vres.jwks = "keys"
        /\ vres.token =
              CASE field = "client_id" ->
                     [GoodCognitoToken(exp) EXCEPT !.claims.client_id = "other-client"]
                [] field = "token_use" ->
                     [GoodCognitoToken(exp) EXCEPT !.claims.token_use = "id"]
                [] field = "iss" ->
                     [GoodCognitoToken(exp) EXCEPT !.claims.iss = "other-issuer"]
                [] field = "key" ->
                     [GoodCognitoToken(exp) EXCEPT !.key = "other-key"]
                [] field = "kid" ->
                     [GoodCognitoToken(exp) EXCEPT !.kid = KidUnknown]

\* C31 witness: an unexpired access token of the pool, rightly signed, for
\* another client has been reported invalid
C31_Witness ==
    RawUpstreamValidated /\ ~vres.valid /\ DiffersOnlyIn("client_id")

\* C31 witnesses: so has one that fails one other check alone: the
\* token_use, the issuer, the signature, the kid (no key of the JWKS has
\* it), the expiry, the fetch of the JWKS
C31_WitnessTokenUse ==
    RawUpstreamValidated /\ ~vres.valid /\ DiffersOnlyIn("token_use")

C31_WitnessIssuer ==
    RawUpstreamValidated /\ ~vres.valid /\ DiffersOnlyIn("iss")

C31_WitnessSignature ==
    RawUpstreamValidated /\ ~vres.valid /\ DiffersOnlyIn("key")

C31_WitnessNoMatchingKey ==
    RawUpstreamValidated /\ ~vres.valid /\ DiffersOnlyIn("kid")

C31_WitnessExpired ==
    /\ RawUpstreamValidated /\ ~vres.valid /\ vres.jwks = "keys"
    /\ \E exp \in ExpValues :
          vres.token = GoodCognitoToken(exp) /\ exp <= vres.at

C31_WitnessJwksNotFetched ==
    /\ RawUpstreamValidated /\ ~vres.valid /\ vres.jwks = "error"
    /\ \E exp \in ExpValues :
          vres.token = GoodCognitoToken(exp) /\ exp > vres.at

\* C31 witness: a token that passes every check has been reported valid
C31_WitnessValid ==
    /\ RawUpstreamValidated /\ vres.valid
    /\ vres.claims = vres.token.claims

\* C32: no step removes or changes a client record, whatever time passes;
\* the only step that adds one is a registration answered 200, so that no
\* /authorize, /callback or /token request, answered or failed, touches
\* the client records; and an /authorize request that names a registered
\* client is never answered invalid_client, however long ago the client
\* registered.
C32_ClientsReadOnlyAndPermanent ==
    [][ /\ \A c \in DOMAIN clients :
              c \in DOMAIN clients' /\ clients'[c] = clients[c]
        /\ clients' /= clients =>
              resp'.op = "register" /\ resp'.status = 200
        /\ AuthorizeStep /\ resp'.authorize_request.client_id \in DOMAIN clients
              => resp'.error /= "invalid_client" ]_vars

\* C32 witness: /authorize has stored a session for a client that registered
\* more than 30 days earlier, after /token requests for the client were
\* answered
C32_Witness ==
    /\ resp.op = "authorize" /\ resp.status = 302
    /\ \E s \in DOMAIN sessions :
          /\ sessions[s].data.client_id \in DOMAIN clients
          /\ sessions[s].created_at >
                clients[sessions[s].data.client_id].created_at + RefreshTTL
    /\ \E r \in Slots : reqs[r].pc = "done" /\ reqs[r].client_id \in DOMAIN clients

\* an entry is stored under the key and its expiration has passed
StoredExpired(tbl, key) == key \in DOMAIN tbl /\ tbl[key].expiration < now

\* request r gets the answer of get_token_mapping
CodeLookup(r) ==
    /\ reqs[r].pc = "get_token_mapping"
    /\ reqs'[r].pc /= "get_token_mapping"

\* C33: with the in-memory store a read is one step of one handler, whatever
\* other handlers are in flight: a reader that finds an expired session, code
\* mapping or refresh mapping evicts it and is answered as for a missing one
\* in that same step, so that the entry is gone for every reader after it;
\* and a reader obtains an entry only if one is stored under the key, with
\* its expiration not passed, at the step of the read.
C33_LocalExpiryCheckAndEvictionAtomic ==
    [][ backend = "local" =>
          /\ \A r \in Slots :
                LET code == reqs[r].code
                    refresh_token == reqs[r].form_refresh_token
                IN  /\ CodeLookup(r) /\ StoredExpired(tokens, code) =>
                          /\ code \notin DOMAIN tokens'
                          /\ InvalidGrantNow(r)
                          /\ reqs'[r].error_description = "Invalid authorization code"
                    /\ CodeLookup(r)
                         /\ reqs'[r].error_description /= "Invalid authorization code"
                         => code \in DOMAIN tokens /\ ~StoredExpired(tokens, code)
                    /\ RefreshLookup(r) /\ StoredExpired(refresh_tokens, refresh_token) =>
                          /\ refresh_token \notin DOMAIN refresh_tokens'
                          /\ InvalidGrantNow(r)
                          /\ reqs'[r].error_description = "Invalid refresh token"
                    /\ RefreshLookup(r)
                         /\ reqs'[r].error_description /= "Invalid refresh token"
                         => UnexpiredRefresh(refresh_token)
          /\ CallbackStep =>
                LET q == resp'.callback_request
                IN  /\ q.error = "" /\ q.code /= "" /\ StoredExpired(sessions, q.state) =>
                          /\ q.state \notin DOMAIN sessions'
                          /\ resp'.status = 400 /\ resp'.error = "invalid_state"
                    /\ resp'.upstream /= "none" => UnexpiredSession(q.state) ]_vars

\* C33 witness: a request presented a code after its expiration, found the
\* mapping stored, evicted it and was answered as for a missing code, while
\* no request had redeemed the code
C33_Witness ==
    /\ backend = "local"
    /\ \E r \in Slots :
          /\ AuthCodeDone(r)
          /\ reqs[r].owner /= 0
          /\ reqs[r].complete
          /\ reqs[r].status = 400 /\ reqs[r].error = "invalid_grant"
          /\ reqs[r].error_description = "Invalid authorization code"
          /\ reqs[r].code \notin DOMAIN tokens
    /\ \A r \in Slots : reqs[r].status /= 200

\* C33 witness: a refresh request has found the mapping expired, evicted it
\* and was answered as for a missing refresh token
C33_WitnessRefresh ==
    /\ backend = "local"
    /\ \E r \in Slots :
          /\ reqs[r].pc = "done" /\ reqs[r].grant_type = "refresh_token"
          /\ reqs[r].error_description = "Invalid refresh token"
          /\ reqs[r].form_refresh_token \notin DOMAIN refresh_tokens
          /\ \E x \in Slots :
                /\ AuthCodeDone(x) /\ reqs[x].status = 200
                /\ reqs[x].refresh_token = reqs[r].form_refresh_token

\* what the in-memory store answers to a get of the key: found exactly if
\* the last write under the key was not deleted since and its expiration has
\* not passed.  Either store's table holds that write until it is deleted or,
\* past its expiration, evicted or swept.
VolatileFinds(tbl, key) == key \in DOMAIN tbl /\ tbl[key].expiration >= now

\* C34: after the same store, get, update and delete calls at the same
\* instants, a get of a session, a code mapping or a refresh mapping answers
\* found on the DynamoDB store exactly when it does on the in-memory store,
\* and with the data the in-memory store returns: the data that was stored,
\* each number as it was stored.
C34_BackendsObservationallyEquivalent ==
    [][ \A op \in GetOps :
          lastGet' /= lastGet /\ lastGet'.op = op =>
             /\ lastGet'.found = VolatileFinds(TableOf(op), lastGet'.key)
             /\ lastGet'.found => lastGet'.data \in StoreDatas ]_vars

-----------------------------------------------------------------------------
(* Claims about requests in flight, failed requests and the provenance of   *)
(* what is stored                                                            *)

\* request r waits for the answer of Cognito to its refresh POST
AwaitsUpstream(r) == reqs[r].pc = "refresh_upstream"

\* request r has answered
Answered(r) == reqs[r].pc = "done" /\ reqs[r].status \in { 200, 400, 500 }

\* the POST of request r returned, raised or timed out in this step
UpstreamReturns(r) == AwaitsUpstream(r) /\ reqs'[r].upstream = "made"

C35_WitnessAnswered ==
    \E r \in Slots :
        /\ reqs[r].pc = "done"
        /\ reqs[r].upstream = "made"
        /\ reqs[r].upstream_outcome.refresh_token /= ""
        /\ reqs[r].status = 200
        /\ backend = "dynamo"

\* the refresh mapping request r stored is in the store
StoredByRequest(r) ==
    reqs[r].refresh_token /= 0 /\ reqs[r].refresh_token \in DOMAIN refresh_tokens

\* C36: a failing request leaves no partial state. Once a /token
\* authorization_code request has been answered with an error (invalid_request,
\* invalid_grant, or server_error after a store call raised), the store holds
\* no refresh mapping that the request created.
C36_FailingRequestLeavesNoRefreshMapping ==
    \A r \in Slots :
        AuthCodeDone(r) /\ reqs[r].status /= 200 => ~StoredByRequest(r)

\* the answers of the grant's checks that C37 is about
CheckRejections ==
    { "Missing required parameters",
      "Authorization code was issued to another client",
      "Missing code_verifier", "Invalid code_verifier" }

\* request r, an authorization_code request, is rejected by one of the checks
\* in this step
RejectedByCheck(r) ==
    /\ reqs[r].pc /= "done" /\ reqs'[r].pc = "done"
    /\ reqs'[r].grant_type = "authorization_code"
    /\ reqs'[r].status = 400
    /\ reqs'[r].error_description \in CheckRejections

\* request r, which passed every check, deletes the mapping of code c and
\* answers with the token response in this step
RedeemsCode(r, c) ==
    /\ reqs[r].pc = "delete_token_mapping" /\ reqs[r].code = c
    /\ reqs'[r].pc = "done" /\ reqs'[r].status = 200

\* C37: failed redemption attempts do not consume a code. The step in which
\* an authorization_code request is rejected for a missing parameter, another
\* client's code, a missing or a wrong code_verifier leaves every code mapping
\* stored and unchanged; and a code mapping whose time-to-live has not passed
\* leaves the store, or changes, only in the step in which a request that
\* passed every check redeems it. So a correct request for the code still
\* finds it after any number of failed attempts.
C37_FailedAttemptsDoNotConsumeCode ==
    [][ /\ \A r \in Slots : RejectedByCheck(r) => tokens' = tokens
        /\ \A c \in DOMAIN tokens :
              (c \notin DOMAIN tokens' \/ tokens'[c] /= tokens[c]) =>
                 \/ StoredExpired(tokens, c)
                 \/ \E r \in Slots : RedeemsCode(r, c) ]_vars

\* request x was turned away with the description d for code c and the later
\* request r got the token response for c
RedeemedAfterRejection(x, r, d) ==
    /\ x < r
    /\ AuthCodeDone(x) /\ reqs[x].status = 400 /\ reqs[x].error_description = d
    /\ AuthCodeDone(r) /\ reqs[r].status = 200
    /\ reqs[x].code = reqs[r].code

\* C37 witness: a request with a wrong code_verifier was rejected and a later
\* request for the same code was answered with the token response
C37_Witness ==
    \E x, r \in Slots : RedeemedAfterRejection(x, r, "Invalid code_verifier")

C37_WitnessOtherClient ==
    \E x, r \in Slots :
        RedeemedAfterRejection(x, r,
            "Authorization code was issued to another client")

C37_WitnessMissingVerifier ==
    \E x, r \in Slots : RedeemedAfterRejection(x, r, "Missing code_verifier")

C37_WitnessMissingParameter ==
    \E x, r \in Slots :
        RedeemedAfterRejection(x, r, "Missing required parameters")

\* the broker refresh tokens this step stores a mapping under, and those whose
\* mapping it removes
KeysAdded == DOMAIN refresh_tokens' \ DOMAIN refresh_tokens

KeysRemoved == DOMAIN refresh_tokens \ DOMAIN refresh_tokens'

\* an authorization_code request stores the mapping of the refresh token t it
\* has minted
MintedByRedemption(t) ==
    \E r \in Slots :
        /\ reqs[r].pc = "store_refresh_token"
        /\ reqs[r].grant_type = "authorization_code"
        /\ reqs'[r].refresh_token = t

\* a refresh_token request that presented t writes the mapping it read back
\* under t and answers 200
WrittenBackByRefresh(t) ==
    \E r \in Slots :
        /\ RefreshSucceeds(r)
        /\ reqs[r].grant_type = "refresh_token"
        /\ reqs[r].form_refresh_token = t

\* a successful refresh_token grant answers without a refresh_token and
\* removes no mapping, and a mapping leaves the store only once its
\* expiration has passed
RefreshNeverRetires ==
    /\ \A r \in Slots :
          RefreshSucceeds(r) =>
             /\ "refresh_token" \notin DOMAIN reqs'[r].response
             /\ KeysRemoved = {}
             /\ KeysAdded \subseteq { reqs[r].form_refresh_token }
             /\ LET t == reqs[r].form_refresh_token
                IN  t \in DOMAIN refresh_tokens /\ t \in DOMAIN refresh_tokens' =>
                       refresh_tokens'[t].data.client_id
                          = refresh_tokens[t].data.client_id
    /\ \A t \in KeysRemoved : StoredExpired(refresh_tokens, t)

\* C38 as stated: broker refresh tokens are never re-keyed or retired by use,
\* and the set of stored broker refresh token keys grows only in the step in
\* which an authorization_code redemption stores the token it minted.
C38_KeysGrowOnlyThroughRedemptions ==
    [][ /\ RefreshNeverRetires
        /\ \A t \in KeysAdded : MintedByRedemption(t) ]_vars

\* C38 as amended: a successful refresh_token grant returns no refresh_token
\* and removes or renames no mapping, a mapping leaves the store only once its
\* expiration has passed, so the same broker refresh token with the same
\* client_id can be redeemed again; a key enters the store when an
\* authorization_code redemption stores the token it minted, or when a
\* refresh_token grant that read the mapping under that key before it was
\* evicted writes it back under the same key.
C38_RefreshKeepsKeyAndWritesOnlyUnderIt ==
    [][ /\ RefreshNeverRetires
        /\ \A t \in KeysAdded :
              MintedByRedemption(t) \/ WrittenBackByRefresh(t) ]_vars

\* C38 witness: a refresh grant succeeded, the upstream having rotated its
\* token, and a second request presenting the same broker refresh token and
\* client_id has read the updated mapping and passed the checks
C38_Witness ==
    \E x, r \in Slots :
        /\ reqs[x].pc = "done" /\ reqs[x].grant_type = "refresh_token"
        /\ reqs[x].status = 200
        /\ reqs[x].upstream_outcome.refresh_token = "cognito-rt-2"
        /\ reqs[r].pc = "refresh_upstream"
        /\ reqs[r].form_refresh_token = reqs[x].form_refresh_token
        /\ reqs[r].client_id = reqs[x].client_id
        /\ reqs[r].mapping.cognito_refresh_token = "cognito-rt-2"

\* both requests for the same broker refresh token were answered 200, one
\* after the other
C38_WitnessRedeemedTwice ==
    \E x, r \in Slots :
        /\ x /= r
        /\ \A y \in {x, r} :
              /\ reqs[y].pc = "done" /\ reqs[y].grant_type = "refresh_token"
              /\ reqs[y].status = 200
              /\ reqs[y].form_refresh_token \in DOMAIN refresh_tokens
        /\ reqs[x].form_refresh_token = reqs[r].form_refresh_token
        /\ reqs[x].upstream_outcome.refresh_token = "cognito-rt-2"
        /\ reqs[r].upstream_outcome.refresh_token = "cognito-rt-3"
        /\ refresh_tokens[reqs[r].form_refresh_token].data.cognito_refresh_token
              = "cognito-rt-3"

\* a request found no mapping under the token, which had been evicted after
\* its expiration, and the mapping is in the store again, written back by a
\* refresh request that had read it in time
C38_WitnessWrittenBack ==
    \E x, r \in Slots :
        /\ reqs[x].pc = "done" /\ reqs[x].grant_type = "refresh_token"
        /\ reqs[x].error_description = "Invalid refresh token"
        /\ reqs[r].pc = "done" /\ reqs[r].grant_type = "refresh_token"
        /\ reqs[r].status = 200
        /\ reqs[r].form_refresh_token = reqs[x].form_refresh_token
        /\ reqs[r].form_refresh_token \in DOMAIN refresh_tokens
        /\ now <= refresh_tokens[reqs[r].form_refresh_token].expiration

\* requests x and r presented the same broker refresh token, both were
\* answered 200, and Cognito issued a new refresh token to x and, after it, a
\* newer one to r
BothRefreshed(x, r) ==
    /\ \A y \in {x, r} :
          /\ reqs[y].pc = "done" /\ reqs[y].grant_type = "refresh_token"
          /\ reqs[y].status = 200
    /\ reqs[x].form_refresh_token = reqs[r].form_refresh_token
    /\ reqs[x].upstream_outcome.refresh_token = RotatedRefreshTokens[1]
    /\ reqs[r].upstream_outcome.refresh_token = RotatedRefreshTokens[2]

\* C39: no lost update on concurrent refresh. Once two refresh_token grants
\* that presented the same broker refresh token have both completed, the
\* upstream having rotated its refresh token on each, the mapping stored under
\* the broker refresh token holds the upstream refresh token issued last, not
\* the one it superseded.
C39_NoLostUpdateOnConcurrentRefresh ==
    \A x, r \in Slots :
        BothRefreshed(x, r)
        /\ reqs[r].form_refresh_token \in DOMAIN refresh_tokens
            => refresh_tokens[reqs[r].form_refresh_token].data.cognito_refresh_token
                  = RotatedRefreshTokens[2]

\* a client is registered under the client_id
Registered(client_id) == client_id \in DOMAIN clients

\* every stored session and code mapping belongs to a registered client, the
\* session's redirect_uri is one that client registered, and so does every
\* refresh mapping
StoredForRegisteredClients ==
    /\ \A s \in DOMAIN sessions :
          /\ Registered(sessions[s].data.client_id)
          /\ InList(sessions[s].data.redirect_uri,
                    clients[sessions[s].data.client_id].data.redirect_uris)
    /\ \A c \in DOMAIN tokens : Registered(tokens[c].data.client_id)
    /\ \A t \in DOMAIN refresh_tokens :
          Registered(refresh_tokens[t].data.client_id)

\* the code mapping under c enters the store in this step: /callback resolved
\* a stored session, the exchange with Cognito succeeded, the mapping is the
\* session's client's and the client is redirected with c
CreatedByCallback(c) ==
    /\ CallbackStep
    /\ resp'.status = 302
    /\ resp'.upstream = "ok" /\ ~UpstreamFailed(resp'.upstream_outcome)
    /\ resp'.callback_request.state \in DOMAIN sessions
    /\ tokens'[c].data.client_id
          = sessions[resp'.callback_request.state].data.client_id
    /\ resp'.redirect_params.code = c

\* the refresh mapping under t enters the store in this step: a request that
\* redeems a code stores it with the client_id of the code mapping it read
CreatedByRedemption(t) ==
    \E r \in Slots :
        /\ reqs[r].pc = "store_refresh_token"
        /\ reqs[r].grant_type = "authorization_code"
        /\ reqs'[r].refresh_token = t
        /\ reqs[r].mapping.client_id = reqs[r].owner
        /\ refresh_tokens'[t].data.client_id = reqs[r].mapping.client_id

\* the refresh mapping under t is written in this step by a refresh_token
\* grant that read it under t, with the client_id it read
KeptByRefresh(t) ==
    \E r \in Slots :
        /\ RefreshSucceeds(r)
        /\ reqs[r].grant_type = "refresh_token"
        /\ reqs[r].form_refresh_token = t
        /\ refresh_tokens'[t].data.client_id = reqs[r].mapping.client_id

C40_WitnessOtherClient ==
    /\ refresh_tokens = EmptyMap
    /\ \E r \in Slots :
          /\ AuthCodeDone(r) /\ reqs[r].owner /= 0
          /\ reqs[r].client_id /= reqs[r].owner /\ reqs[r].complete
          /\ reqs[r].status = 400

=============================================================================
